---------------------------- MODULE Spec2Model ----------------------------
(***************************************************************************)
(* Model of the trip-request parser of multi_tool_agent/userinterfaceagent *)
(* (parse_trip_request and its extractors).                                *)
(*                                                                         *)
(* A text is a sequence of characters; a character is a one-letter string, *)
(* except that the characters TLA+ strings cannot hold are named: "EURO",  *)
(* "POUND", "RUPEE", "YEN", "WON" (the currency signs), "ENDASH",          *)
(* "EMDASH", "TAB" and "NL".  Python's None is the empty tuple None and a  *)
(* present value v is Some(v) = <<v>>.  The regular expressions of the     *)
(* source are transcribed node by node and matched by Match, which follows *)
(* the backtracking order of Python's re module.                           *)
(***************************************************************************)
EXTENDS Integers, Sequences, FiniteSets, TLC

None == <<>>
Some(v) == <<v>>
IsSome(o) == Len(o) = 1
Val(o) == o[1]

(***************************************************************************)
(* Characters and the classes the patterns use                             *)
(***************************************************************************)
Digits == {"0","1","2","3","4","5","6","7","8","9"}
Lowers == {"a","b","c","d","e","f","g","h","i","j","k","l","m",
           "n","o","p","q","r","s","t","u","v","w","x","y","z"}
Uppers == {"A","B","C","D","E","F","G","H","I","J","K","L","M",
           "N","O","P","Q","R","S","T","U","V","W","X","Y","Z"}
Spaces == {" ", "TAB", "NL"}

LowerMap ==
  ("A" :> "a") @@ ("B" :> "b") @@ ("C" :> "c") @@ ("D" :> "d") @@ ("E" :> "e") @@
  ("F" :> "f") @@ ("G" :> "g") @@ ("H" :> "h") @@ ("I" :> "i") @@ ("J" :> "j") @@
  ("K" :> "k") @@ ("L" :> "l") @@ ("M" :> "m") @@ ("N" :> "n") @@ ("O" :> "o") @@
  ("P" :> "p") @@ ("Q" :> "q") @@ ("R" :> "r") @@ ("S" :> "s") @@ ("T" :> "t") @@
  ("U" :> "u") @@ ("V" :> "v") @@ ("W" :> "w") @@ ("X" :> "x") @@ ("Y" :> "y") @@
  ("Z" :> "z")

UpperMap ==
  ("a" :> "A") @@ ("b" :> "B") @@ ("c" :> "C") @@ ("d" :> "D") @@ ("e" :> "E") @@
  ("f" :> "F") @@ ("g" :> "G") @@ ("h" :> "H") @@ ("i" :> "I") @@ ("j" :> "J") @@
  ("k" :> "K") @@ ("l" :> "L") @@ ("m" :> "M") @@ ("n" :> "N") @@ ("o" :> "O") @@
  ("p" :> "P") @@ ("q" :> "Q") @@ ("r" :> "R") @@ ("s" :> "S") @@ ("t" :> "T") @@
  ("u" :> "U") @@ ("v" :> "V") @@ ("w" :> "W") @@ ("x" :> "X") @@ ("y" :> "Y") @@
  ("z" :> "Z")

DigitVal ==
  ("0" :> 0) @@ ("1" :> 1) @@ ("2" :> 2) @@ ("3" :> 3) @@ ("4" :> 4) @@
  ("5" :> 5) @@ ("6" :> 6) @@ ("7" :> 7) @@ ("8" :> 8) @@ ("9" :> 9)

DigitChr == <<"0","1","2","3","4","5","6","7","8","9">>

\* str.lower() / str.upper() of one character
LowerChar(c) == IF c \in Uppers THEN LowerMap[c] ELSE c
UpperChar(c) == IF c \in Lowers THEN UpperMap[c] ELSE c

\* str.lower() of a string
LowerStr(s) == [j \in 1..Len(s) |-> LowerChar(s[j])]

IsDigit(c) == c \in Digits
IsAlpha(c) == c \in Lowers \/ c \in Uppers
\* \w : letters, digits, underscore
IsWord(c) == IsAlpha(c) \/ IsDigit(c) \/ c = "_"
\* \s
IsSpace(c) == c \in Spaces

\* The character classes of the patterns, by name:
\*   "d" \d   "s" \s   "w" \w   "A" [A-Za-z]   "U" [A-Z]
\*   "num" [\d,.\s]   "phr" [\w\-\s]   "cl" [^.,;]
\* Under re.IGNORECASE a class matches a letter when it holds either case
\* of it, which only changes [A-Z]: it then matches every letter.
InClass(c, cls, ic) ==
  CASE cls = "d"   -> IsDigit(c)
    [] cls = "s"   -> IsSpace(c)
    [] cls = "w"   -> IsWord(c)
    [] cls = "A"   -> IsAlpha(c)
    [] cls = "U"   -> IF ic THEN IsAlpha(c) ELSE c \in Uppers
    [] cls = "num" -> IsDigit(c) \/ c \in {",", "."} \/ IsSpace(c)
    [] cls = "phr" -> IsWord(c) \/ c = "-" \/ IsSpace(c)
    [] cls = "cl"  -> c \notin {".", ",", ";"}
    [] OTHER       -> FALSE

\* a literal character of a pattern against a character of the text
CharEq(c, lit, ic) == IF ic THEN LowerChar(c) = LowerChar(lit) ELSE c = lit

(***************************************************************************)
(* Regular expressions: a pattern is a sequence of nodes                   *)
(***************************************************************************)
Inf == -1

Lit(c) == [t |-> "lit", c |-> c]
Cls(c) == [t |-> "cls", c |-> c]
WB == [t |-> "wb"]
EOS == [t |-> "eos"]
Alt(alts) == [t |-> "alt", a |-> alts]
Rep(r, lo, hi) == [t |-> "rep", r |-> r, lo |-> lo, hi |-> hi, g |-> TRUE]
LazyRep(r, lo, hi) == [t |-> "rep", r |-> r, lo |-> lo, hi |-> hi, g |-> FALSE]
Opt(r) == Rep(r, 0, 1)
Star(r) == Rep(r, 0, Inf)
Plus(r) == Rep(r, 1, Inf)
Grp(k, r) == [t |-> "grp", k |-> k, r |-> r]
GEnd(k, s) == [t |-> "gend", k |-> k, s |-> s]
Look(r) == [t |-> "look", r |-> r]
\* the literal characters of a word, as pattern nodes
Str(s) == [j \in 1..Len(s) |-> Lit(s[j])]

NoMatch == [ok |-> FALSE]

\* \b : between a \w character and a non-\w character or an end of the text
AtBoundary(T, i) ==
  LET before == i > 1 /\ IsWord(T[i-1])
      after  == i <= Len(T) /\ IsWord(T[i])
  IN before # after

\* does node n (a literal or a class) accept character c
CharOk(n, c, ic) == IF n.t = "lit" THEN CharEq(c, n.c, ic) ELSE InClass(c, n.c, ic)

\* the number of characters from position i on that node n accepts, at most lim
\* (lim = Inf: no limit); a long run is counted sixteen characters at a time
RECURSIVE RunLen(_, _, _, _, _)
RunLen(T, i, n, ic, lim) ==
  IF lim = 0 \/ i > Len(T) \/ ~CharOk(n, T[i], ic) THEN 0
  ELSE IF /\ lim = Inf \/ lim >= 16
          /\ i + 15 <= Len(T)
          /\ \A j \in (i + 1)..(i + 15) : CharOk(n, T[j], ic)
       THEN 16 + RunLen(T, i + 16, n, ic, IF lim = Inf THEN Inf ELSE lim - 16)
       ELSE 1 + RunLen(T, i + 1, n, ic, IF lim = Inf THEN Inf ELSE lim - 1)

\* Match(T, re, i, caps, ic): the first way, in the backtracking order of
\* Python's re, in which pattern re matches text T from position i on; caps
\* are the groups captured so far (<<0, 0>>: the group did not take part).
RECURSIVE Match(_, _, _, _, _)
RECURSIVE MatchAlt(_, _, _, _, _, _)

\* the alternatives of (a|b|...) in order, each followed by the rest
MatchAlt(T, alts, rest, i, caps, ic) ==
  IF Len(alts) = 0 THEN NoMatch
  ELSE LET a == Match(T, Head(alts) \o rest, i, caps, ic)
       IN IF a.ok THEN a ELSE MatchAlt(T, Tail(alts), rest, i, caps, ic)

\* a repeated single character that can take lo to hi characters, then the
\* rest: the count tried first is the largest (greedy) or the smallest
\* (lazy), and the first count after which the rest matches is taken
MatchCount(T, rest, i, caps, ic, lo, hi, greedy) ==
  LET first == Match(T, rest, i + (IF greedy THEN hi ELSE lo), caps, ic)
      oks == {c \in lo..hi : Match(T, rest, i + c, caps, ic).ok}
      best == IF greedy THEN CHOOSE c \in oks : \A d \in oks : c >= d
              ELSE CHOOSE c \in oks : \A d \in oks : c <= d
  IN IF first.ok THEN first
     ELSE IF oks = {} THEN NoMatch
     ELSE Match(T, rest, i + best, caps, ic)

Match(T, re, i, caps, ic) ==
  IF Len(re) = 0 THEN [ok |-> TRUE, end |-> i, caps |-> caps]
  ELSE
    LET n == Head(re)
        rest == Tail(re)
    IN CASE n.t = "lit" \/ n.t = "cls" ->
              IF i <= Len(T) /\ CharOk(n, T[i], ic)
              THEN Match(T, rest, i + 1, caps, ic) ELSE NoMatch
         [] n.t = "wb" ->
              IF AtBoundary(T, i) THEN Match(T, rest, i, caps, ic) ELSE NoMatch
         [] n.t = "eos" ->
              IF i = Len(T) + 1 \/ (i = Len(T) /\ T[i] = "NL")
              THEN Match(T, rest, i, caps, ic) ELSE NoMatch
         [] n.t = "look" ->
              IF Match(T, n.r, i, caps, ic).ok
              THEN Match(T, rest, i, caps, ic) ELSE NoMatch
         [] n.t = "grp" ->
              Match(T, n.r \o <<GEnd(n.k, i)>> \o rest, i, caps, ic)
         [] n.t = "gend" ->
              Match(T, rest, i, [caps EXCEPT ![n.k] = <<n.s, i>>], ic)
         [] n.t = "alt" ->
              MatchAlt(T, n.a, rest, i, caps, ic)
         [] n.t = "rep" ->
              IF Len(n.r) = 1 /\ (n.r[1].t = "lit" \/ n.r[1].t = "cls")
              THEN \* one character repeated: the run it can take, then back off
                LET run == RunLen(T, i, n.r[1], ic, n.hi)
                IN IF run < n.lo THEN NoMatch
                   ELSE MatchCount(T, rest, i, caps, ic, n.lo, run, n.g)
              ELSE
                LET more == <<[n EXCEPT !.lo = IF n.lo > 0 THEN n.lo - 1 ELSE 0,
                                        !.hi = IF n.hi = Inf THEN Inf ELSE n.hi - 1]>>
                    once == IF n.hi = 0 THEN NoMatch
                            ELSE Match(T, n.r \o more \o rest, i, caps, ic)
                    skip == IF n.lo = 0 THEN Match(T, rest, i, caps, ic) ELSE NoMatch
                IN IF n.g
                   THEN (IF once.ok THEN once ELSE skip)
                   ELSE (IF skip.ok THEN skip ELSE once)

\* no group of ng has taken part yet
Caps0(ng) == [k \in 1..ng |-> <<0, 0>>]

\* the positions from position from on where the pattern matches
MatchStarts(T, re, ng, ic, from) ==
  {s \in from..(Len(T) + 1) : Match(T, re, s, Caps0(ng), ic).ok}

\* the match object of match m, which starts at s0
MatchAt(s0, m) == [ok |-> TRUE, start |-> s0, end |-> m.end, caps |-> m.caps]

\* the match at the least of the positions starts
LeftmostMatch(T, re, ng, ic, starts) ==
  IF starts = {} THEN NoMatch
  ELSE MatchAt(CHOOSE s \in starts : \A u \in starts : s <= u,
               Match(T, re, CHOOSE s \in starts : \A u \in starts : s <= u,
                     Caps0(ng), ic))

\* re.search from position from on (the text before it still decides \b):
\* the match at the leftmost position where the pattern matches
SearchFrom(T, re, ng, ic, from) ==
  LeftmostMatch(T, re, ng, ic, MatchStarts(T, re, ng, ic, from))

\* re.search (ng: the number of groups of the pattern)
Search(T, re, ng, ic) == SearchFrom(T, re, ng, ic, 1)

\* m.group(k): None when the group took no part in the match
Group(T, m, k) ==
  IF m.caps[k] = <<0, 0>> THEN None
  ELSE Some(SubSeq(T, m.caps[k][1], m.caps[k][2] - 1))

\* m.group(0)
Group0(T, m) == SubSeq(T, m.start, m.end - 1)

(***************************************************************************)
(* Lexicon tables                                                          *)
(***************************************************************************)
\* a table is the sequence of its entries [k |-> key, v |-> value], in the
\* order the dictionary was built in (the order a loop over it follows)
MONTHS ==
  <<[k |-> <<"j","a","n","u","a","r","y">>, v |-> 1],
    [k |-> <<"f","e","b","r","u","a","r","y">>, v |-> 2],
    [k |-> <<"m","a","r","c","h">>, v |-> 3],
    [k |-> <<"a","p","r","i","l">>, v |-> 4],
    [k |-> <<"m","a","y">>, v |-> 5],
    [k |-> <<"j","u","n","e">>, v |-> 6],
    [k |-> <<"j","u","l","y">>, v |-> 7],
    [k |-> <<"a","u","g","u","s","t">>, v |-> 8],
    [k |-> <<"s","e","p","t","e","m","b","e","r">>, v |-> 9],
    [k |-> <<"o","c","t","o","b","e","r">>, v |-> 10],
    [k |-> <<"n","o","v","e","m","b","e","r">>, v |-> 11],
    [k |-> <<"d","e","c","e","m","b","e","r">>, v |-> 12]>>

\* MONTH_ABBR = {m[:3]: n for m, n in MONTHS.items()}
MONTH_ABBR == [j \in 1..Len(MONTHS) |-> [k |-> SubSeq(MONTHS[j].k, 1, 3), v |-> MONTHS[j].v]]

\* dict.get(key): Some(value) of the entry with that key, None without one
Get(table, key) ==
  LET hits == {j \in 1..Len(table) : table[j].k = key}
  IN IF hits = {} THEN None ELSE Some(table[CHOOSE j \in hits : TRUE].v)

\* s[:n]
Prefix(s, n) == SubSeq(s, 1, IF Len(s) < n THEN Len(s) ELSE n)

(***************************************************************************)
(* Numbers and calendar dates                                              *)
(***************************************************************************)
\* int(s) of a string of decimal digits
RECURSIVE IntOf(_)
IntOf(s) == IF Len(s) = 0 THEN 0
            ELSE 10 * IntOf(SubSeq(s, 1, Len(s) - 1)) + DigitVal[s[Len(s)]]

IsLeap(y) == (y % 4 = 0 /\ y % 100 # 0) \/ y % 400 = 0

DaysInMonth(y, m) ==
  IF m = 2 THEN (IF IsLeap(y) THEN 29 ELSE 28)
  ELSE IF m \in {4, 6, 9, 11} THEN 30 ELSE 31

\* datetime.date(y, m, d) is constructed; otherwise it raises ValueError
DateOk(y, m, d) ==
  /\ y >= 1 /\ y <= 9999
  /\ m >= 1 /\ m <= 12
  /\ d >= 1 /\ d <= DaysInMonth(y, m)

\* the decimal digits of n, zero-padded to w places
RECURSIVE Pad(_, _)
Pad(n, w) == IF w = 0 THEN <<>> ELSE Pad(n \div 10, w - 1) \o <<DigitChr[(n % 10) + 1]>>

\* datetime.date(y, m, d).isoformat()
IsoFormat(y, m, d) == Pad(y, 4) \o <<"-">> \o Pad(m, 2) \o <<"-">> \o Pad(d, 2)

(***************************************************************************)
(* _find_month_or_window                                                   *)
(***************************************************************************)
D(lo, hi) == Rep(<<Cls("d")>>, lo, hi)
S0 == Star(<<Cls("s")>>)
S1 == Plus(<<Cls("s")>>)

\* \d{4}-\d{2}-\d{2}
IsoDatePat == <<D(4, 4), Lit("-"), D(2, 2), Lit("-"), D(2, 2)>>

\* (\d{4}-\d{2}-\d{2})\s*(?:to|-|–|—)\s*(\d{4}-\d{2}-\d{2})
IsoRangePat ==
  <<Grp(1, IsoDatePat), S0,
    Alt(<<Str(<<"t","o">>), <<Lit("-")>>, <<Lit("ENDASH")>>, <<Lit("EMDASH")>>>>),
    S0, Grp(2, IsoDatePat)>>

\* (?:to|-|–|—|through|thru|until|till|up to|up\-to)
RangeSep ==
  Alt(<<Str(<<"t","o">>), <<Lit("-")>>, <<Lit("ENDASH")>>, <<Lit("EMDASH")>>,
        Str(<<"t","h","r","o","u","g","h">>), Str(<<"t","h","r","u">>),
        Str(<<"u","n","t","i","l">>), Str(<<"t","i","l","l">>),
        Str(<<"u","p"," ","t","o">>), Str(<<"u","p","-","t","o">>)>>)

\* (?:st|nd|rd|th)?
OrdOpt ==
  Opt(<<Alt(<<Str(<<"s","t">>), Str(<<"n","d">>), Str(<<"r","d">>), Str(<<"t","h">>)>>)>>)

\* [A-Za-z]{3,9}
MonTok == Rep(<<Cls("A")>>, 3, 9)

\* \b([A-Za-z]{3,9})\s+(\d{1,2})(?:st|nd|rd|th)?\s*(?:,?\s*(\d{4}))?\s*
\* (?:to|...)\s*(?:(?:([A-Za-z]{3,9})\s+)?(\d{1,2})(?:st|nd|rd|th)?)
\* (?:\s*,?\s*(\d{4}))?
Pat1 ==
  <<WB, Grp(1, <<MonTok>>), S1, Grp(2, <<D(1, 2)>>), OrdOpt,
    S0, Opt(<<Opt(<<Lit(",")>>), S0, Grp(3, <<D(4, 4)>>)>>), S0,
    RangeSep, S0,
    Opt(<<Grp(4, <<MonTok>>), S1>>), Grp(5, <<D(1, 2)>>), OrdOpt,
    Opt(<<S0, Opt(<<Lit(",")>>), S0, Grp(6, <<D(4, 4)>>)>>)>>

\* \b(\d{1,2})(?:st|nd|rd|th)?\s*(?:to|...)\s*(\d{1,2})(?:st|nd|rd|th)?\s*
\* ([A-Za-z]{3,9})(?:\s*,?\s*(\d{4}))?
Pat2 ==
  <<WB, Grp(1, <<D(1, 2)>>), OrdOpt, S0, RangeSep, S0,
    Grp(2, <<D(1, 2)>>), OrdOpt, S0, Grp(3, <<MonTok>>),
    Opt(<<S0, Opt(<<Lit(",")>>), S0, Grp(4, <<D(4, 4)>>)>>)>>

\* \bbetween\s+([A-Za-z]{3,9})\s+(\d{1,2})(?:st|nd|rd|th)?\s+
\* and\s+(\d{1,2})(?:st|nd|rd|th)?(?:\s*,?\s*(\d{4}))?
Pat3 ==
  <<WB>> \o Str(<<"b","e","t","w","e","e","n">>) \o
  <<S1, Grp(1, <<MonTok>>), S1, Grp(2, <<D(1, 2)>>), OrdOpt, S1>> \o
  Str(<<"a","n","d">>) \o
  <<S1, Grp(3, <<D(1, 2)>>), OrdOpt,
    Opt(<<S0, Opt(<<Lit(",")>>), S0, Grp(4, <<D(4, 4)>>)>>)>>

\* \b(?:in\s+)?([A-Za-z]{3,9})\b
PlainMonthPat ==
  <<WB, Opt(Str(<<"i","n">>) \o <<S1>>), Grp(1, <<MonTok>>), WB>>

\* MONTHS.get(tok) or MONTH_ABBR.get(tok[:3]), tok lower-cased
MonNum(tok) ==
  LET low == LowerStr(tok)
      full == Get(MONTHS, low)
  IN IF IsSome(full) THEN full ELSE Get(MONTH_ABBR, Prefix(low, 3))

\* int(re.sub(r"(st|nd|rd|th)$", "", d, flags=re.IGNORECASE))
StripOrd(d) ==
  LET n == Len(d)
      suf == IF n >= 2 THEN LowerStr(SubSeq(d, n - 1, n)) ELSE <<>>
  IN IF suf \in {<<"s","t">>, <<"n","d">>, <<"r","d">>, <<"t","h">>}
     THEN IntOf(SubSeq(d, 1, n - 2)) ELSE IntOf(d)

\* the keys _find_month_or_window can set (an absent key reads as None)
NoWindow == [start_date |-> None, end_date |-> None, month |-> None]

\* out["start_date"], out["end_date"] of two constructed dates
RangeOf(sy, sm, sd, ey, em, ed) ==
  [start_date |-> Some(IsoFormat(sy, sm, sd)),
   end_date |-> Some(IsoFormat(ey, em, ed)), month |-> None]

\* 0) the ISO range: the two matched texts are passed through as they are
IsoResult(T, m) ==
  IF m.ok
  THEN Some([start_date |-> Group(T, m, 1), end_date |-> Group(T, m, 2),
             month |-> None])
  ELSE None

IsoRule(T) == IsoResult(T, Search(T, IsoRangePat, 2, FALSE))

\* 1) "Oct 5th to 15th, 2025": Some(range) when the pattern matches, both
\* months are known and both dates are constructed, None otherwise
\* the two dates of a match of Pat1, given its six groups
Pat1Dates(smon, sd, sy, emon, ed, ey, year_now) ==
  LET sm == MonNum(Val(smon))
      em == IF IsSome(emon) THEN MonNum(Val(emon)) ELSE sm
      sd_i == StripOrd(Val(sd))
      ed_i == StripOrd(Val(ed))
      sy_i == IF IsSome(sy) THEN IntOf(Val(sy)) ELSE year_now
      ey_i == IF IsSome(ey) THEN IntOf(Val(ey)) ELSE sy_i
  IN IF IsSome(sm) /\ IsSome(em)
     THEN IF DateOk(sy_i, Val(sm), sd_i) /\ DateOk(ey_i, Val(em), ed_i)
          THEN Some(RangeOf(sy_i, Val(sm), sd_i, ey_i, Val(em), ed_i))
          ELSE None
     ELSE None

Pat1Result(T, m, year_now) ==
  IF ~m.ok THEN None
  ELSE Pat1Dates(Group(T, m, 1), Group(T, m, 2), Group(T, m, 3),
                 Group(T, m, 4), Group(T, m, 5), Group(T, m, 6), year_now)

Pat1Rule(T, year_now) == Pat1Result(T, Search(T, Pat1, 6, TRUE), year_now)

\* 2) "5-15 October, 2025" and 3) "between Oct 5 and 15, 2025": the month
\* text mon, the two day texts and the optional year text of the match
SameMonthRange(mon, sd, ed, yr, year_now) ==
  LET mm == MonNum(Val(mon))
  IN IF IsSome(mm)
     THEN LET sd_i == StripOrd(Val(sd))
              ed_i == StripOrd(Val(ed))
              y == IF IsSome(yr) THEN IntOf(Val(yr)) ELSE year_now
          IN IF DateOk(y, Val(mm), sd_i) /\ DateOk(y, Val(mm), ed_i)
             THEN Some(RangeOf(y, Val(mm), sd_i, y, Val(mm), ed_i))
             ELSE None
     ELSE None

Pat2Result(T, m, year_now) ==
  IF ~m.ok THEN None
  ELSE SameMonthRange(Group(T, m, 3), Group(T, m, 1), Group(T, m, 2),
                      Group(T, m, 4), year_now)

Pat2Rule(T, year_now) == Pat2Result(T, Search(T, Pat2, 4, TRUE), year_now)

Pat3Result(T, m, year_now) ==
  IF ~m.ok THEN None
  ELSE SameMonthRange(Group(T, m, 1), Group(T, m, 2), Group(T, m, 3),
                      Group(T, m, 4), year_now)

Pat3Rule(T, year_now) == Pat3Result(T, Search(T, Pat3, 4, TRUE), year_now)

\* 4) the plain month: the first word of 3 to 9 letters, if it names a month
PlainMonthResult(T, m) ==
  IF ~m.ok THEN None
  ELSE LET key == LowerStr(Val(Group(T, m, 1)))
           full == Get(MONTHS, key)
           month_num == IF IsSome(full) THEN full ELSE Get(MONTH_ABBR, Prefix(key, 3))
       IN IF IsSome(month_num)
          THEN Some([start_date |-> None, end_date |-> None, month |-> month_num])
          ELSE None

PlainMonthRule(T) == PlainMonthResult(T, Search(T, PlainMonthPat, 1, FALSE))

\* Cascade as it would be if the month of the text were kept beside a range
CascadeKeepsMonth(r0, r1, r2, r3, r4) ==
  LET month == IF IsSome(r4) THEN Val(r4).month ELSE None
  IN IF IsSome(r0) THEN [Val(r0) EXCEPT !.month = month]
     ELSE IF IsSome(r1) THEN [Val(r1) EXCEPT !.month = month]
     ELSE IF IsSome(r2) THEN [Val(r2) EXCEPT !.month = month]
     ELSE IF IsSome(r3) THEN [Val(r3) EXCEPT !.month = month]
     ELSE IF IsSome(r4) THEN Val(r4)
     ELSE NoWindow

\* Cascade as it would be with the day-range-before-month pattern tried
\* before the named-month pattern
CascadePat2First(r0, r1, r2, r3, r4) ==
  IF IsSome(r0) THEN Val(r0)
  ELSE IF IsSome(r2) THEN Val(r2)
  ELSE IF IsSome(r1) THEN Val(r1)
  ELSE IF IsSome(r3) THEN Val(r3)
  ELSE IF IsSome(r4) THEN Val(r4)
  ELSE NoWindow

\* the cascade of _find_month_or_window, r0 to r4 being what its five rules
\* yield: the first rule that yields a result returns it
Cascade(r0, r1, r2, r3, r4) ==
  IF IsSome(r0) THEN Val(r0)
  ELSE IF IsSome(r1) THEN Val(r1)
  ELSE IF IsSome(r2) THEN Val(r2)
  ELSE IF IsSome(r3) THEN Val(r3)
  ELSE IF IsSome(r4) THEN Val(r4)
  ELSE NoWindow

FindMonthOrWindow(T, year_now) ==
  Cascade(IsoRule(T), Pat1Rule(T, year_now), Pat2Rule(T, year_now),
          Pat3Rule(T, year_now), PlainMonthRule(T))

CURRENCY_SIGNS ==
  <<[k |-> <<"$">>, v |-> <<"U","S","D">>],
    [k |-> <<"EURO">>, v |-> <<"E","U","R">>],
    [k |-> <<"POUND">>, v |-> <<"G","B","P">>],
    [k |-> <<"RUPEE">>, v |-> <<"I","N","R">>],
    [k |-> <<"YEN">>, v |-> <<"J","P","Y">>],
    [k |-> <<"WON">>, v |-> <<"K","R","W">>],
    [k |-> <<"A","$">>, v |-> <<"A","U","D">>],
    [k |-> <<"C","$">>, v |-> <<"C","A","D">>]>>

CURRENCY_WORDS ==
  <<[k |-> <<"u","s","d">>, v |-> <<"U","S","D">>],
    [k |-> <<"d","o","l","l","a","r">>, v |-> <<"U","S","D">>],
    [k |-> <<"d","o","l","l","a","r","s">>, v |-> <<"U","S","D">>],
    [k |-> <<"e","u","r">>, v |-> <<"E","U","R">>],
    [k |-> <<"e","u","r","o">>, v |-> <<"E","U","R">>],
    [k |-> <<"e","u","r","o","s">>, v |-> <<"E","U","R">>],
    [k |-> <<"g","b","p">>, v |-> <<"G","B","P">>],
    [k |-> <<"p","o","u","n","d">>, v |-> <<"G","B","P">>],
    [k |-> <<"p","o","u","n","d","s">>, v |-> <<"G","B","P">>],
    [k |-> <<"i","n","r">>, v |-> <<"I","N","R">>],
    [k |-> <<"r","u","p","e","e">>, v |-> <<"I","N","R">>],
    [k |-> <<"r","u","p","e","e","s">>, v |-> <<"I","N","R">>],
    [k |-> <<"j","p","y">>, v |-> <<"J","P","Y">>],
    [k |-> <<"y","e","n">>, v |-> <<"J","P","Y">>],
    [k |-> <<"c","a","d">>, v |-> <<"C","A","D">>],
    [k |-> <<"a","u","d">>, v |-> <<"A","U","D">>]>>

(***************************************************************************)
(* _normalize_budget_number                                                *)
(***************************************************************************)
\* str.strip(): the text without its leading and trailing whitespace
Strip(s) ==
  LET n == Len(s)
      lead == Cardinality({j \in 1..n : \A q \in 1..j : IsSpace(s[q])})
      trail == Cardinality({j \in 1..n : \A q \in 1..j : IsSpace(s[n + 1 - q])})
  IN IF lead = n THEN <<>> ELSE SubSeq(s, lead + 1, n - trail)

\* s.replace(c, "") for a single character c
Remove(s, c) ==
  LET Keep(x) == x # c
  IN SelectSeq(s, Keep)

\* the digits of s without leading zeros
NoLeadingZeros(s) ==
  LET zeros == Cardinality({j \in 1..Len(s) : \A q \in 1..j : s[q] = "0"})
  IN SubSeq(s, zeros + 1, Len(s))

\* is digit string a at least digit string b, both of one length
RECURSIVE DigitsGeq(_, _)
DigitsGeq(a, b) ==
  IF Len(a) = 0 \/ Len(b) = 0 THEN TRUE
  ELSE IF DigitVal[Head(a)] # DigitVal[Head(b)] THEN DigitVal[Head(a)] > DigitVal[Head(b)]
  ELSE DigitsGeq(Tail(a), Tail(b))

\* the largest double is 1.7976931348623157e308: a 309-digit integer from
\* 17976931348623158079... on, and any longer one, converts to infinity
FloatMaxDigits == 309
FloatOverDigits ==
  <<"1","7","9","7","6","9","3","1","3","4","8","6","2","3","1","5","8","0","7","9","4">>

\* float(s): [ok |-> FALSE] is ValueError; otherwise the digits before and
\* after the point.  s holds only the characters [\d.\s] here, so the
\* grammar left is: whitespace, digits and at most one point with a digit
\* on one side of it, whitespace.
ParseFloat(s) ==
  LET t0 == Strip(s)
      dots == {j \in 1..Len(t0) : t0[j] = "."}
      p == IF dots = {} THEN Len(t0) + 1 ELSE CHOOSE j \in dots : TRUE
  IN IF /\ \A j \in 1..Len(t0) : IsDigit(t0[j]) \/ t0[j] = "."
        /\ Cardinality(dots) <= 1
        /\ \E j \in 1..Len(t0) : IsDigit(t0[j])
     THEN [ok |-> TRUE, ip |-> NoLeadingZeros(SubSeq(t0, 1, p - 1)),
           fp |-> SubSeq(t0, p + 1, Len(t0))]
     ELSE [ok |-> FALSE]

\* is the double of the integer with digits ip, times 10^shift, infinite
FloatIsInf(ip, shift) ==
  \/ Len(ip) + shift > FloatMaxDigits
  \/ Len(ip) + shift = FloatMaxDigits /\ DigitsGeq(ip, FloatOverDigits)

\* int(float(s) * 10^shift) for a finite float: the decimal value, truncated
\* (decimal arithmetic: the texts of the model are ones where the binary
\* double gives the same integer)
Truncated(f, shift) ==
  LET frac == SubSeq(f.fp \o <<"0","0","0">>, 1, shift)
  IN IntOf(f.ip \o frac)

\* the result of a call: a returned value, or the exception it raised
Ret(v) == [raised |-> "", ret |-> v]
Raise(e) == [raised |-> e]

\* int(float(s) * 1000) or int(float(s)): ValueError gives 0, and int() of
\* an infinite float raises OverflowError, which nothing here catches
IntOfParsed(f, shift) ==
  IF ~f.ok THEN Ret(0)
  ELSE IF FloatIsInf(f.ip, shift) THEN Raise("OverflowError")
  ELSE Ret(Truncated(f, shift))

IntOfFloat(s, shift) == IntOfParsed(ParseFloat(s), shift)

\* the two branches of _normalize_budget_number, for the text s with its
\* commas and spaces removed
NormalizeStripped(s) ==
  IF Len(s) > 0 /\ s[Len(s)] = "k"
  THEN IntOfFloat(SubSeq(s, 1, Len(s) - 1), 3)
  ELSE IntOfFloat(s, 0)

NormalizeBudgetNumber(num_str) ==
  NormalizeStripped(Remove(Remove(LowerStr(num_str), ","), " "))

(***************************************************************************)
(* _find_budget                                                            *)
(***************************************************************************)
\* [\d,.\s]*k?
NumTail == <<Star(<<Cls("num")>>), Opt(<<Lit("k")>>)>>

\* (?:<sign>)\s*([\d,.\s]*k?)
SignPat(sign) == Str(sign) \o <<S0, Grp(1, NumTail)>>

\* [- ]? and [ -]?
DashOrSpaceOpt == Opt(<<Alt(<<<<Lit("-")>>, <<Lit(" ")>>>>)>>)

\* \b(\d[\d,.\s]*k?)\s*(usd|eur|gbp|inr|jpy|cad|aud|dollars?|euros?|pounds?|rupees?|yen)\b
CurrencyWordPat ==
  <<WB, Grp(1, <<Cls("d")>> \o NumTail), S0,
    Grp(2, <<Alt(<<Str(<<"u","s","d">>), Str(<<"e","u","r">>), Str(<<"g","b","p">>), Str(<<"i","n","r">>), Str(<<"j","p","y">>), Str(<<"c","a","d">>), Str(<<"a","u","d">>),
                   Str(<<"d","o","l","l","a","r">>) \o <<Opt(<<Lit("s")>>)>>,
                   Str(<<"e","u","r","o">>) \o <<Opt(<<Lit("s")>>)>>,
                   Str(<<"p","o","u","n","d">>) \o <<Opt(<<Lit("s")>>)>>,
                   Str(<<"r","u","p","e","e">>) \o <<Opt(<<Lit("s")>>)>>,
                   Str(<<"y","e","n">>)>>)>>),
    WB>>

\* \bbudget(?:\s+of|\s*[:=])?\s*(\d[\d,.\s]*k?)\b
BudgetNumPat ==
  <<WB>> \o Str(<<"b","u","d","g","e","t">>) \o
  <<Opt(<<Alt(<<<<S1>> \o Str(<<"o","f">>),
                <<S0, Alt(<<<<Lit(":")>>, <<Lit("=")>>>>)>>>>)>>),
    S0, Grp(1, <<Cls("d")>> \o NumTail), WB>>

\* \bbudget[- ]?friendly|cheap|affordable|low[ -]?cost\b
FriendlyPat ==
  <<Alt(<<<<WB>> \o Str(<<"b","u","d","g","e","t">>) \o <<DashOrSpaceOpt>> \o Str(<<"f","r","i","e","n","d","l","y">>),
          Str(<<"c","h","e","a","p">>), Str(<<"a","f","f","o","r","d","a","b","l","e">>),
          Str(<<"l","o","w">>) \o <<DashOrSpaceOpt>> \o Str(<<"c","o","s","t">>) \o <<WB>>>>)>>

\* \bluxury|luxurious|high[- ]?end|premium|5[- ]?star\b
LuxuryPat ==
  <<Alt(<<<<WB>> \o Str(<<"l","u","x","u","r","y">>), Str(<<"l","u","x","u","r","i","o","u","s">>),
          Str(<<"h","i","g","h">>) \o <<DashOrSpaceOpt>> \o Str(<<"e","n","d">>), Str(<<"p","r","e","m","i","u","m">>),
          <<Lit("5"), DashOrSpaceOpt>> \o Str(<<"s","t","a","r">>) \o <<WB>>>>)>>

\* \bmid[- ]?range|moderate|standard\b
MidRangePat ==
  <<Alt(<<<<WB>> \o Str(<<"m","i","d">>) \o <<DashOrSpaceOpt>> \o Str(<<"r","a","n","g","e">>),
          Str(<<"m","o","d","e","r","a","t","e">>), Str(<<"s","t","a","n","d","a","r","d">>) \o <<WB>>>>)>>

USD == <<"U","S","D">>
TagFriendly == <<"b","u","d","g","e","t","-","f","r","i","e","n","d","l","y">>
TagLuxury == <<"l","u","x","u","r","y">>
TagMidRange == <<"m","i","d","-","r","a","n","g","e">>

Budget(amount, currency, tag) == [amount |-> amount, currency |-> currency, tag |-> tag]

\* the outcome of one numeric rule: it returns a budget, it raises, or it
\* leaves the decision to the rules after it
Returns(b) == [kind |-> "return", b |-> b]
Raises(e) == [kind |-> "raise", e |-> e]
FallThrough == [kind |-> "next"]

\* one pass of the loop over CURRENCY_SIGNS, for the entry with index j
\* "if amt: return {amount, currency}" for the normalized amount amt
IfAmount(amt, code) ==
  IF amt.raised # "" THEN Raises(amt.raised)
  ELSE IF amt.ret # 0 THEN Returns(Budget(Some(amt.ret), Some(code), None))
  ELSE FallThrough

SignResult(T, m, code) ==
  IF m.ok /\ Len(Strip(Val(Group(T, m, 1)))) > 0
  THEN IfAmount(NormalizeBudgetNumber(Val(Group(T, m, 1))), code)
  ELSE FallThrough

SignEntry(T, j) ==
  SignResult(T, Search(T, SignPat(CURRENCY_SIGNS[j].k), 1, TRUE), CURRENCY_SIGNS[j].v)

\* the result r of one entry, or else the entries after it
RECURSIVE SignRule(_, _)
SignOrNext(T, j, r) == IF r.kind = "next" THEN SignRule(T, j + 1) ELSE r

\* the loop over CURRENCY_SIGNS from entry j on
SignRule(T, j) ==
  IF j > Len(CURRENCY_SIGNS) THEN FallThrough
  ELSE SignOrNext(T, j, SignEntry(T, j))

\* "3000 euros", "2500 usd"
\* "return {amount, currency}" whatever the normalized amount amt is
AnyAmount(amt, cur) ==
  IF amt.raised # "" THEN Raises(amt.raised)
  ELSE Returns(Budget(Some(amt.ret), IF IsSome(cur) THEN cur ELSE Some(USD), None))

CurrencyWordResult(T, m) ==
  IF m.ok
  THEN AnyAmount(NormalizeBudgetNumber(Val(Group(T, m, 1))),
                 Get(CURRENCY_WORDS, LowerStr(Val(Group(T, m, 2)))))
  ELSE FallThrough

CurrencyWordRule(T) == CurrencyWordResult(T, Search(T, CurrencyWordPat, 2, TRUE))

\* a plain number after "budget"
BudgetNumResult(T, m) ==
  IF m.ok THEN IfAmount(NormalizeBudgetNumber(Val(Group(T, m, 1))), USD)
  ELSE FallThrough

BudgetNumRule(T) == BudgetNumResult(T, Search(T, BudgetNumPat, 1, TRUE))

\* the keyword bands
TagRule(T) ==
  IF Search(T, FriendlyPat, 0, TRUE).ok THEN Budget(None, None, Some(TagFriendly))
  ELSE IF Search(T, LuxuryPat, 0, TRUE).ok THEN Budget(None, None, Some(TagLuxury))
  ELSE IF Search(T, MidRangePat, 0, TRUE).ok THEN Budget(None, None, Some(TagMidRange))
  ELSE Budget(None, None, None)

\* BudgetCascade as it would be if the band were set beside an amount
BudgetCascadeTagged(r1, r2, r3, bands) ==
  IF r1.kind = "raise" THEN Raise(r1.e)
  ELSE IF r1.kind = "return" THEN Ret([r1.b EXCEPT !.tag = bands.tag])
  ELSE IF r2.kind = "raise" THEN Raise(r2.e)
  ELSE IF r2.kind = "return" THEN Ret([r2.b EXCEPT !.tag = bands.tag])
  ELSE IF r3.kind = "raise" THEN Raise(r3.e)
  ELSE IF r3.kind = "return" THEN Ret([r3.b EXCEPT !.tag = bands.tag])
  ELSE Ret(bands)

\* BudgetCascade as it would be with the currency-word rule tried before the
\* currency-sign rule
BudgetCascadeWordFirst(r1, r2, r3, bands) ==
  IF r2.kind = "raise" THEN Raise(r2.e)
  ELSE IF r2.kind = "return" THEN Ret(r2.b)
  ELSE IF r1.kind = "raise" THEN Raise(r1.e)
  ELSE IF r1.kind = "return" THEN Ret(r1.b)
  ELSE IF r3.kind = "raise" THEN Raise(r3.e)
  ELSE IF r3.kind = "return" THEN Ret(r3.b)
  ELSE Ret(bands)

\* the rules in order: the first that returns or raises decides
BudgetCascade(r1, r2, r3, bands) ==
  IF r1.kind = "raise" THEN Raise(r1.e)
  ELSE IF r1.kind = "return" THEN Ret(r1.b)
  ELSE IF r2.kind = "raise" THEN Raise(r2.e)
  ELSE IF r2.kind = "return" THEN Ret(r2.b)
  ELSE IF r3.kind = "raise" THEN Raise(r3.e)
  ELSE IF r3.kind = "return" THEN Ret(r3.b)
  ELSE Ret(bands)

FindBudget(T) ==
  BudgetCascade(SignRule(T, 1), CurrencyWordRule(T), BudgetNumRule(T), TagRule(T))

(***************************************************************************)
(* The other lexicon tables                                                *)
(***************************************************************************)
WORD_NUMS ==
  <<[k |-> <<"o","n","e">>, v |-> 1],
    [k |-> <<"t","w","o">>, v |-> 2],
    [k |-> <<"t","h","r","e","e">>, v |-> 3],
    [k |-> <<"f","o","u","r">>, v |-> 4],
    [k |-> <<"f","i","v","e">>, v |-> 5],
    [k |-> <<"s","i","x">>, v |-> 6],
    [k |-> <<"s","e","v","e","n">>, v |-> 7],
    [k |-> <<"e","i","g","h","t">>, v |-> 8],
    [k |-> <<"n","i","n","e">>, v |-> 9],
    [k |-> <<"t","e","n">>, v |-> 10],
    [k |-> <<"e","l","e","v","e","n">>, v |-> 11],
    [k |-> <<"t","w","e","l","v","e">>, v |-> 12],
    [k |-> <<"t","h","i","r","t","e","e","n">>, v |-> 13],
    [k |-> <<"f","o","u","r","t","e","e","n">>, v |-> 14],
    [k |-> <<"f","i","f","t","e","e","n">>, v |-> 15],
    [k |-> <<"s","i","x","t","e","e","n">>, v |-> 16],
    [k |-> <<"s","e","v","e","n","t","e","e","n">>, v |-> 17],
    [k |-> <<"e","i","g","h","t","e","e","n">>, v |-> 18],
    [k |-> <<"n","i","n","e","t","e","e","n">>, v |-> 19],
    [k |-> <<"t","w","e","n","t","y">>, v |-> 20]>>

INTEREST_KEYWORDS ==
  <<[k |-> <<"a","r","t">>,
     v |-> <<<<"a","r","t">>,
             <<"m","u","s","e","u","m">>,
             <<"g","a","l","l","e","r","i","e","s">>,
             <<"g","a","l","l","e","r","y">>,
             <<"e","x","h","i","b","i","t","i","o","n">>>>],
    [k |-> <<"f","o","o","d">>,
     v |-> <<<<"f","o","o","d">>,
             <<"c","u","i","s","i","n","e">>,
             <<"r","e","s","t","a","u","r","a","n","t">>,
             <<"d","i","n","i","n","g">>,
             <<"c","u","l","i","n","a","r","y">>,
             <<"s","t","r","e","e","t"," ","f","o","o","d">>>>],
    [k |-> <<"h","i","s","t","o","r","y">>,
     v |-> <<<<"h","i","s","t","o","r","y">>,
             <<"h","i","s","t","o","r","i","c">>,
             <<"h","e","r","i","t","a","g","e">>,
             <<"c","a","s","t","l","e">>,
             <<"m","o","n","u","m","e","n","t">>,
             <<"r","u","i","n","s">>>>],
    [k |-> <<"n","a","t","u","r","e">>,
     v |-> <<<<"n","a","t","u","r","e">>,
             <<"h","i","k","e">>,
             <<"h","i","k","i","n","g">>,
             <<"p","a","r","k">>,
             <<"o","u","t","d","o","o","r","s">>,
             <<"m","o","u","n","t","a","i","n">>,
             <<"f","o","r","e","s","t">>>>],
    [k |-> <<"a","d","v","e","n","t","u","r","e">>,
     v |-> <<<<"a","d","v","e","n","t","u","r","e">>,
             <<"k","a","y","a","k">>,
             <<"s","k","i">>,
             <<"s","u","r","f">>,
             <<"d","i","v","e">>,
             <<"z","i","p","l","i","n","e">>,
             <<"t","r","e","k">>,
             <<"c","l","i","m","b">>>>],
    [k |-> <<"n","i","g","h","t","l","i","f","e">>,
     v |-> <<<<"n","i","g","h","t","l","i","f","e">>,
             <<"c","l","u","b">>,
             <<"b","a","r","s">>,
             <<"b","a","r">>,
             <<"p","u","b">>,
             <<"p","a","r","t","y">>>>],
    [k |-> <<"s","h","o","p","p","i","n","g">>,
     v |-> <<<<"s","h","o","p","p","i","n","g">>,
             <<"s","h","o","p">>,
             <<"b","o","u","t","i","q","u","e">>,
             <<"m","a","l","l">>,
             <<"m","a","r","k","e","t">>,
             <<"s","o","u","v","e","n","i","r">>>>],
    [k |-> <<"f","a","m","i","l","y">>,
     v |-> <<<<"f","a","m","i","l","y">>,
             <<"k","i","d","s">>,
             <<"c","h","i","l","d","r","e","n">>,
             <<"z","o","o">>,
             <<"t","h","e","m","e"," ","p","a","r","k">>>>],
    [k |-> <<"r","o","m","a","n","c","e">>,
     v |-> <<<<"r","o","m","a","n","c","e">>,
             <<"h","o","n","e","y","m","o","o","n">>,
             <<"c","o","u","p","l","e">>,
             <<"r","o","m","a","n","t","i","c">>>>]>>

(***************************************************************************)
(* _clean, str.title, _find_destination, _find_departure_city              *)
(***************************************************************************)
\* re.sub(r"\s+", " ", text.strip()): every run of whitespace becomes one space
Clean(s) ==
  LET t0 == Strip(s)
      First(j) == j = 1 \/ ~IsSpace(t0[j - 1])
      kept == {j \in 1..Len(t0) : ~IsSpace(t0[j]) \/ First(j)}
      Nth(q) == CHOOSE j \in kept : Cardinality({x \in kept : x < j}) = q - 1
  IN [q \in 1..Cardinality(kept) |-> IF IsSpace(t0[Nth(q)]) THEN " " ELSE t0[Nth(q)]]

\* str.title(): a letter after a letter is lower-cased, any other letter is
\* upper-cased
Title(s) ==
  [j \in 1..Len(s) |->
     IF ~IsAlpha(s[j]) THEN s[j]
     ELSE IF j > 1 /\ IsAlpha(s[j - 1]) THEN LowerChar(s[j]) ELSE UpperChar(s[j])]

\* [A-Z][\w\-\s]+?
PhrasePat == <<Cls("U"), LazyRep(<<Cls("phr")>>, 1, Inf)>>

\* (?:trip\s+to|travel\s+to|fly\s+to|to|visit)\s+([A-Z][\w\-\s]+?)
\* (?=(?:\s+for|\s+with|\s+in|\s+on|\s+by|,|\.|$))
DestinationPat ==
  <<Alt(<<Str(<<"t","r","i","p">>) \o <<S1>> \o Str(<<"t","o">>), Str(<<"t","r","a","v","e","l">>) \o <<S1>> \o Str(<<"t","o">>),
          Str(<<"f","l","y">>) \o <<S1>> \o Str(<<"t","o">>), Str(<<"t","o">>), Str(<<"v","i","s","i","t">>)>>),
    S1, Grp(1, PhrasePat),
    Look(<<Alt(<<<<S1>> \o Str(<<"f","o","r">>), <<S1>> \o Str(<<"w","i","t","h">>), <<S1>> \o Str(<<"i","n">>),
                 <<S1>> \o Str(<<"o","n">>), <<S1>> \o Str(<<"b","y">>),
                 <<Lit(",")>>, <<Lit(".")>>, <<EOS>>>>)>>)>>

\* \bfrom\s+([A-Z][\w\-\s]+?)(?=(?:\s+to|\s+for|,|\.|$))
DeparturePat ==
  <<WB>> \o Str(<<"f","r","o","m">>) \o
  <<S1, Grp(1, PhrasePat),
    Look(<<Alt(<<<<S1>> \o Str(<<"t","o">>), <<S1>> \o Str(<<"f","o","r">>),
                 <<Lit(",")>>, <<Lit(".")>>, <<EOS>>>>)>>)>>

\* _clean(m.group(1)).title() if m else None
PlaceOf(T, m) == IF m.ok THEN Some(Title(Clean(Val(Group(T, m, 1))))) ELSE None

FindDestination(T) == PlaceOf(T, Search(T, DestinationPat, 1, TRUE))

FindDepartureCity(T) == PlaceOf(T, Search(T, DeparturePat, 1, TRUE))

(***************************************************************************)
(* _find_duration_days                                                     *)
(***************************************************************************)
\* (?:day|days|night|nights)\b
DayUnit == <<Alt(<<Str(<<"d","a","y">>), Str(<<"d","a","y","s">>), Str(<<"n","i","g","h","t">>), Str(<<"n","i","g","h","t","s">>)>>), WB>>

\* \b(\d{1,3})\s*(?:-\s*)?(?:day|days|night|nights)\b
DurationDigitPat ==
  <<WB, Grp(1, <<D(1, 3)>>), S0, Opt(<<Lit("-"), S0>>)>> \o DayUnit

\* \b{w}\s*(?:day|days|night|nights)\b
DurationWordPat(w) == <<WB>> \o Str(w) \o <<S0>> \o DayUnit

\* the loop over WORD_NUMS from entry j on: the first word that is found
RECURSIVE DurationWords(_, _)
DurationWords(T, j) ==
  IF j > Len(WORD_NUMS) THEN None
  ELSE IF Search(T, DurationWordPat(WORD_NUMS[j].k), 0, TRUE).ok
       THEN Some(WORD_NUMS[j].v)
       ELSE DurationWords(T, j + 1)

DurationOf(T, m) ==
  IF m.ok THEN Some(IntOf(Val(Group(T, m, 1)))) ELSE DurationWords(T, 1)

FindDurationDays(T) == DurationOf(T, Search(T, DurationDigitPat, 1, TRUE))

(***************************************************************************)
(* _find_travelers                                                         *)
(***************************************************************************)
\* \bfamily\s+of\s+(\d+)\b
FamilyPat ==
  <<WB>> \o Str(<<"f","a","m","i","l","y">>) \o <<S1>> \o Str(<<"o","f">>) \o <<S1, Grp(1, <<D(1, Inf)>>), WB>>

\* \b(\d+)\s+(?:adults?|people|persons?)\b
CountPat ==
  <<WB, Grp(1, <<D(1, Inf)>>), S1,
    Alt(<<Str(<<"a","d","u","l","t">>) \o <<Opt(<<Lit("s")>>)>>, Str(<<"p","e","o","p","l","e">>),
          Str(<<"p","e","r","s","o","n">>) \o <<Opt(<<Lit("s")>>)>>>>), WB>>

\* \b{w}\s+(?:people|persons|adults?)\b
CountWordPat(w) ==
  <<WB>> \o Str(w) \o
  <<S1, Alt(<<Str(<<"p","e","o","p","l","e">>), Str(<<"p","e","r","s","o","n","s">>), Str(<<"a","d","u","l","t">>) \o <<Opt(<<Lit("s")>>)>>>>), WB>>

\* \bfor\s+(one|two|three|four|five|six|\d+)\b
ForPat ==
  <<WB>> \o Str(<<"f","o","r">>) \o
  <<S1, Grp(1, <<Alt(<<Str(<<"o","n","e">>), Str(<<"t","w","o">>), Str(<<"t","h","r","e","e">>), Str(<<"f","o","u","r">>), Str(<<"f","i","v","e">>), Str(<<"s","i","x">>),
                       <<D(1, Inf)>>>>)>>), WB>>

\* \b(couple|honeymoon)\b
CouplePat == <<WB, Grp(1, <<Alt(<<Str(<<"c","o","u","p","l","e">>), Str(<<"h","o","n","e","y","m","o","o","n">>)>>)>>), WB>>

Travelers(adults, children) == [adults |-> adults, children |-> children]

\* the loop over WORD_NUMS from entry j on
RECURSIVE TravelerWords(_, _)
TravelerWords(T, j) ==
  IF j > Len(WORD_NUMS) THEN None
  ELSE IF Search(T, CountWordPat(WORD_NUMS[j].k), 0, TRUE).ok
       THEN Some(WORD_NUMS[j].v)
       ELSE TravelerWords(T, j + 1)

\* str.isdigit()
IsDigitStr(s) == Len(s) > 0 /\ \A j \in 1..Len(s) : IsDigit(s[j])

Max2(a, b) == IF a >= b THEN a ELSE b

\* FamilyOf as it would be without the floor of two adults
FamilyOfLessTwo(total) ==
  LET adults == IF total >= 3 THEN total - 2 ELSE total
  IN Travelers(Some(adults), Max2(0, total - adults))

\* "family of N": the adults and children of a family of total
FamilyOf(total) ==
  LET adults == IF total >= 3 THEN Max2(2, total - 2) ELSE total
  IN Travelers(Some(adults), Max2(0, total - adults))

\* WORD_NUMS.get(word, int(word) if word.isdigit() else 2)
ForCount(word) ==
  LET known == Get(WORD_NUMS, word)
  IN IF IsSome(known) THEN known
     ELSE IF IsDigitStr(word) THEN Some(IntOf(word)) ELSE Some(2)

\* TravelerCascade as it would be with the "N adults" rule tried before the
\* "family of N" rule
TravelerCascadeCountFirst(T, fam, cnt, wrd, for, couple) ==
  IF cnt.ok THEN Travelers(Some(IntOf(Val(Group(T, cnt, 1)))), 0)
  ELSE IF fam.ok THEN FamilyOf(IntOf(Val(Group(T, fam, 1))))
  ELSE IF IsSome(wrd) THEN Travelers(wrd, 0)
  ELSE IF for.ok THEN Travelers(ForCount(LowerStr(Val(Group(T, for, 1)))), 0)
  ELSE IF couple.ok THEN Travelers(Some(2), 0)
  ELSE Travelers(None, 0)

\* the rules in order, given the match of each pattern
TravelerCascade(T, fam, cnt, wrd, for, couple) ==
  IF fam.ok THEN FamilyOf(IntOf(Val(Group(T, fam, 1))))
  ELSE IF cnt.ok THEN Travelers(Some(IntOf(Val(Group(T, cnt, 1)))), 0)
  ELSE IF IsSome(wrd) THEN Travelers(wrd, 0)
  ELSE IF for.ok THEN Travelers(ForCount(LowerStr(Val(Group(T, for, 1)))), 0)
  ELSE IF couple.ok THEN Travelers(Some(2), 0)
  ELSE Travelers(None, 0)

FindTravelers(T) ==
  TravelerCascade(T, Search(T, FamilyPat, 1, TRUE), Search(T, CountPat, 1, TRUE),
                  TravelerWords(T, 1), Search(T, ForPat, 1, TRUE),
                  Search(T, CouplePat, 1, TRUE))

(***************************************************************************)
(* _find_interests                                                         *)
(***************************************************************************)
\* KeywordPat as it would be without the word boundaries
KeywordPatAnywhere(w) == Str(w)

\* \b{re.escape(w)}\b
KeywordPat(w) == <<WB>> \o Str(w) \o <<WB>>

\* the tags with a trigger word in the text
InterestHits(T) ==
  {INTEREST_KEYWORDS[j].k : j \in
     {q \in 1..Len(INTEREST_KEYWORDS) :
        \E x \in 1..Len(INTEREST_KEYWORDS[q].v) :
           Search(T, KeywordPat(INTEREST_KEYWORDS[q].v[x]), 0, TRUE).ok}}

Alphabet ==
  <<"a","b","c","d","e","f","g","h","i","j","k","l","m",
    "n","o","p","q","r","s","t","u","v","w","x","y","z">>

\* ord(c) for the characters the tags are made of: lower-case letters and "-"
CharOrd(c) ==
  IF c \in Lowers THEN 96 + (CHOOSE q \in 1..26 : Alphabet[q] = c) ELSE 45

\* a < b for two strings, as Python compares them
RECURSIVE StrLess(_, _)
StrLess(a, b) ==
  IF Len(b) = 0 THEN FALSE
  ELSE IF Len(a) = 0 THEN TRUE
  ELSE IF Head(a) # Head(b) THEN CharOrd(Head(a)) < CharOrd(Head(b))
  ELSE StrLess(Tail(a), Tail(b))

\* sorted(hits)
RECURSIVE Sorted(_)
Sorted(set) ==
  IF set = {} THEN <<>>
  ELSE LET least == CHOOSE a \in set : \A b \in set : a = b \/ StrLess(a, b)
       IN <<least>> \o Sorted(set \ {least})

FindInterests(T) == Sorted(InterestHits(T))

(***************************************************************************)
(* _find_constraints                                                       *)
(***************************************************************************)
CONSTRAINT_KEYWORDS ==
  <<<<"m","u","s","t">>,
    <<"n","e","e","d">>,
    <<"a","v","o","i","d">>,
    <<"n","o"," ">>,
    <<"p","r","e","f","e","r">>,
    <<"n","o","n","s","t","o","p">>,
    <<"n","o","n","-","s","t","o","p">>>>

\* \b{kw}\b[^.,;]*
ConstraintPat(kw) == <<WB>> \o Str(kw) \o <<WB, Star(<<Cls("cl")>>)>>

\* re.finditer, each match cleaned: the matches from position from on, one
\* after the end of the other (no match here is empty)
RECURSIVE CleanedMatches(_, _, _)
MatchAndRest(T, re, m) ==
  IF ~m.ok THEN <<>>
  ELSE <<Clean(Group0(T, m))>> \o CleanedMatches(T, re, m.end)

CleanedMatches(T, re, from) == MatchAndRest(T, re, SearchFrom(T, re, 0, TRUE, from))

\* the loop over the keywords from keyword j on
RECURSIVE AllConstraints(_, _)
AllConstraints(T, j) ==
  IF j > Len(CONSTRAINT_KEYWORDS) THEN <<>>
  ELSE CleanedMatches(T, ConstraintPat(CONSTRAINT_KEYWORDS[j]), 1)
       \o AllConstraints(T, j + 1)

\* the de-duplication loop: an entry is kept unless an earlier one is equal
\* to it ignoring case
DeDup(cs) ==
  LET Kept(j) == \A q \in 1..(j - 1) : LowerStr(cs[q]) # LowerStr(cs[j])
      keep == {j \in 1..Len(cs) : Kept(j)}
      Nth(q) == CHOOSE j \in keep : Cardinality({x \in keep : x < j}) = q - 1
  IN [q \in 1..Cardinality(keep) |-> cs[Nth(q)]]

FindConstraints(T) == DeDup(AllConstraints(T, 1))

(***************************************************************************)
(* parse_trip_request                                                      *)
(***************************************************************************)
\* the record assembled from what the extractors returned; budget is the
\* only call that can raise, and what it raises is not caught
Assemble(T, destination, departure, window, duration, travelers, budget, interests, constraints) ==
  IF budget.raised # "" THEN Raise(budget.raised)
  ELSE Ret([status |-> "success",
            spec |-> [destination |-> destination,
                      departure_city |-> departure,
                      month |-> window.month,
                      start_date |-> window.start_date,
                      end_date |-> window.end_date,
                      duration_days |-> duration,
                      travelers |-> [adults |-> travelers.adults,
                                     children |-> travelers.children],
                      budget |-> [amount |-> budget.ret.amount,
                                  currency |-> budget.ret.currency,
                                  tag |-> budget.ret.tag],
                      interests |-> interests,
                      constraints |-> constraints,
                      notes |-> T]])

\* the extractors on the stripped text T
ParseStripped(T, year_now) ==
  Assemble(T, FindDestination(T), FindDepartureCity(T),
           FindMonthOrWindow(T, year_now), FindDurationDays(T),
           FindTravelers(T), FindBudget(T), FindInterests(T),
           FindConstraints(T))

\* the call with the clock showing year_now: the returned record, or the
\* exception an extractor let through
ParseTripRequest(raw, year_now) == ParseStripped(Strip(raw), year_now)

(***************************************************************************)
(* The calls                                                               *)
(***************************************************************************)
\* The state: the input text; op, the function that was called on it ("":
\* none yet); year_now, the year datetime.date.today() showed to the call;
\* ret, what the call returned or raised; calls and frames, the concurrent
\* callers; booking, the call of book_flight_and_hotel.
VARIABLES text, op, year_now, ret, calls, frames, booking

vars == <<text, op, year_now, ret, calls, frames, booking>>

\* the bounds of the inputs: the filler words before and after a phrase, and
\* the years after 2025 in which a call is made
MaxLead == 1
MaxTail == 1
MaxYearsAhead == 1

Years == 2025..(2025 + MaxYearsAhead)

\* a run of nines that is too long for a double
Nines == [j \in 1..FloatMaxDigits |-> "9"]

Phrases ==
  \* Oct 5th to 15th, 2025
  <<<<"O","c","t"," ","5","t","h"," ","t","o"," ","1","5","t","h",","," ","2","0","2","5">>,
  \* 5-15 October 2025
    <<"5","-","1","5"," ","O","c","t","o","b","e","r"," ","2","0","2","5">>,
  \* between Oct 5 and 15, 2025
    <<"b","e","t","w","e","e","n"," ","O","c","t"," ","5"," ","a","n","d"," ","1","5",","," ","2","0","2","5">>,
  \* in October
    <<"i","n"," ","O","c","t","o","b","e","r">>,
  \* 2025-10-05 to 2025-10-15
    <<"2","0","2","5","-","1","0","-","0","5"," ","t","o"," ","2","0","2","5","-","1","0","-","1","5">>,
  \* 2025-02-30 to 2025-02-31
    <<"2","0","2","5","-","0","2","-","3","0"," ","t","o"," ","2","0","2","5","-","0","2","-","3","1">>,
  \* Feb 30 to 31
    <<"F","e","b"," ","3","0"," ","t","o"," ","3","1">>,
  \* 30-31 Feb 2025
    <<"3","0","-","3","1"," ","F","e","b"," ","2","0","2","5">>,
  \* between Feb 5 and 30
    <<"b","e","t","w","e","e","n"," ","F","e","b"," ","5"," ","a","n","d"," ","3","0">>,
  \* Oct 5 to 7 Nov 2025
    <<"O","c","t"," ","5"," ","t","o"," ","7"," ","N","o","v"," ","2","0","2","5">>,
  \* Oct 5, 2024 to Nov 3
    <<"O","c","t"," ","5",","," ","2","0","2","4"," ","t","o"," ","N","o","v"," ","3">>,
  \* Feb 28 to 29, 2024
    <<"F","e","b"," ","2","8"," ","t","o"," ","2","9",","," ","2","0","2","4">>,
  \* Feb 30 to 31 between Mar 1 and 2
    <<"F","e","b"," ","3","0"," ","t","o"," ","3","1"," ","b","e","t","w","e","e","n"," ","M","a","r"," ","1"," ","a","n","d"," ","2">>,
  \* May 5–7
    <<"M","a","y"," ","5","ENDASH","7">>,
  \* october
    <<"o","c","t","o","b","e","r">>,
  \* decide later
    <<"d","e","c","i","d","e"," ","l","a","t","e","r">>,
  \* $3k
    <<"$","3","k">>,
  \* 3,000 usd
    <<"3",",","0","0","0"," ","u","s","d">>,
  \* A$500
    <<"A","$","5","0","0">>,
  \* C$500
    <<"C","$","5","0","0">>,
  \* € 2,500
    <<"EURO"," ","2",",","5","0","0">>,
  \* £2.5k
    <<"POUND","2",".","5","k">>,
  \* ₹40000
    <<"RUPEE","4","0","0","0","0">>,
  \* ¥9000
    <<"YEN","9","0","0","0">>,
  \* ₩5000
    <<"WON","5","0","0","0">>,
  \* $ and A$500
    <<"$"," ","a","n","d"," ","A","$","5","0","0">>,
  \* 0 usd
    <<"0"," ","u","s","d">>,
  \* 0 usd budget 500
    <<"0"," ","u","s","d"," ","b","u","d","g","e","t"," ","5","0","0">>,
  \* 1.2.3 euros
    <<"1",".","2",".","3"," ","e","u","r","o","s">>,
  \* $0 cheap
    <<"$","0"," ","c","h","e","a","p">>,
  \* budget of 2000
    <<"b","u","d","g","e","t"," ","o","f"," ","2","0","0","0">>,
  \* budget: 0 luxury
    <<"b","u","d","g","e","t",":"," ","0"," ","l","u","x","u","r","y">>,
  \* budget-friendly
    <<"b","u","d","g","e","t","-","f","r","i","e","n","d","l","y">>,
  \* affordable luxury
    <<"a","f","f","o","r","d","a","b","l","e"," ","l","u","x","u","r","y">>,
  \* premium standard
    <<"p","r","e","m","i","u","m"," ","s","t","a","n","d","a","r","d">>,
  \* mid-range
    <<"m","i","d","-","r","a","n","g","e">>,
  \* $5 and 10 euros
    <<"$","5"," ","a","n","d"," ","1","0"," ","e","u","r","o","s">>,
  \* 10 yen budget 7
    <<"1","0"," ","y","e","n"," ","b","u","d","g","e","t"," ","7">>,
  \* budget 3k cheap
    <<"b","u","d","g","e","t"," ","3","k"," ","c","h","e","a","p">>,
  \* $<309 nines>
    <<"$">> \o Nines,
  \* <309 nines>k pounds
    Nines \o <<"k"," ","p","o","u","n","d","s">>,
  \* budget <309 nines>
    <<"b","u","d","g","e","t"," ">> \o Nines,
  \* Family of 5 trip to Lisbon for 6 days in October, budget around $3k, we love food and history
    <<"F","a","m","i","l","y"," ","o","f"," ","5"," ","t","r","i","p"," ","t","o"," ","L","i","s","b","o","n"," ","f","o","r"," ","6"," ","d","a","y","s"," ","i","n"," ","O","c","t","o","b","e","r",","," ","b","u","d","g","e","t"," ","a","r","o","u","n","d"," ","$","3","k",","," ","w","e"," ","l","o","v","e"," ","f","o","o","d"," ","a","n","d"," ","h","i","s","t","o","r","y">>,
  \* fly to Paris from Rome, must be nonstop
    <<"f","l","y"," ","t","o"," ","P","a","r","i","s"," ","f","r","o","m"," ","R","o","m","e",","," ","m","u","s","t"," ","b","e"," ","n","o","n","s","t","o","p">>,
  \* hello world
    <<"h","e","l","l","o"," ","w","o","r","l","d">>,
  \* (the empty text)
    <<>>,
  \* $3<TAB>000
    <<"$","3","TAB","0","0","0">>,
  \* family of 5
    <<"f","a","m","i","l","y"," ","o","f"," ","5">>,
  \* family of 2
    <<"f","a","m","i","l","y"," ","o","f"," ","2">>,
  \* family of 3
    <<"f","a","m","i","l","y"," ","o","f"," ","3">>,
  \* family of 0
    <<"f","a","m","i","l","y"," ","o","f"," ","0">>,
  \* family of 1
    <<"f","a","m","i","l","y"," ","o","f"," ","1">>,
  \* family of 4 with 2 adults
    <<"f","a","m","i","l","y"," ","o","f"," ","4"," ","w","i","t","h"," ","2"," ","a","d","u","l","t","s">>,
  \* 2 adults family of 5
    <<"2"," ","a","d","u","l","t","s"," ","f","a","m","i","l","y"," ","o","f"," ","5">>,
  \* three adults and 2 people
    <<"t","h","r","e","e"," ","a","d","u","l","t","s"," ","a","n","d"," ","2"," ","p","e","o","p","l","e">>,
  \* two people for 3
    <<"t","w","o"," ","p","e","o","p","l","e"," ","f","o","r"," ","3">>,
  \* honeymoon for 3
    <<"h","o","n","e","y","m","o","o","n"," ","f","o","r"," ","3">>,
  \* couple
    <<"c","o","u","p","l","e">>,
  \* for two
    <<"f","o","r"," ","t","w","o">>,
  \* for 7 days
    <<"f","o","r"," ","7"," ","d","a","y","s">>,
  \* 0 days
    <<"0"," ","d","a","y","s">>,
  \* for 0
    <<"f","o","r"," ","0">>,
  \* 0 people
    <<"0"," ","p","e","o","p","l","e">>,
  \* four-day
    <<"f","o","u","r","-","d","a","y">>,
  \* 4 days
    <<"4"," ","d","a","y","s">>,
  \* 4-day
    <<"4","-","d","a","y">>,
  \* four days
    <<"f","o","u","r"," ","d","a","y","s">>,
  \* 3 nights
    <<"3"," ","n","i","g","h","t","s">>,
  \* three nights
    <<"t","h","r","e","e"," ","n","i","g","h","t","s">>,
  \* seven-night
    <<"s","e","v","e","n","-","n","i","g","h","t">>,
  \* party
    <<"p","a","r","t","y">>,
  \* art and food
    <<"a","r","t"," ","a","n","d"," ","f","o","o","d">>,
  \* museum gallery
    <<"m","u","s","e","u","m"," ","g","a","l","l","e","r","y">>,
  \* theme park
    <<"t","h","e","m","e"," ","p","a","r","k">>,
  \* we love hiking, hike
    <<"w","e"," ","l","o","v","e"," ","h","i","k","i","n","g",","," ","h","i","k","e">>,
  \* art-house
    <<"a","r","t","-","h","o","u","s","e">>,
  \* avoid crowds, must see museums
    <<"a","v","o","i","d"," ","c","r","o","w","d","s",","," ","m","u","s","t"," ","s","e","e"," ","m","u","s","e","u","m","s">>,
  \* must see, MUST SEE
    <<"m","u","s","t"," ","s","e","e",","," ","M","U","S","T"," ","S","E","E">>,
  \* need a pool. must  have<TAB>wifi
    <<"n","e","e","d"," ","a"," ","p","o","o","l","."," ","m","u","s","t"," "," ","h","a","v","e","TAB","w","i","f","i">>,
  \* must see; avoid x; Must See
    <<"m","u","s","t"," ","s","e","e",";"," ","a","v","o","i","d"," ","x",";"," ","M","u","s","t"," ","S","e","e">>,
  \* no pets; prefer nonstop
    <<"n","o"," ","p","e","t","s",";"," ","p","r","e","f","e","r"," ","n","o","n","s","t","o","p">>,
  \* marvel
    <<"m","a","r","v","e","l">>,
  \* want to relax
    <<"w","a","n","t"," ","t","o"," ","r","e","l","a","x">>,
  \* from home
    <<"f","r","o","m"," ","h","o","m","e">>>>



LeadWord == <<"t","r","i","p"," ">>
TailWord == <<" ","n","o","w">>

\* k copies of word w
RECURSIVE Copies(_, _)
Copies(w, k) == IF k = 0 THEN <<>> ELSE w \o Copies(w, k - 1)

\* the inputs: a phrase, after up to MaxLead and before up to MaxTail fillers
Texts ==
  {Copies(LeadWord, a) \o Phrases[p] \o Copies(TailWord, b) :
     a \in 0..MaxLead, p \in 1..Len(Phrases), b \in 0..MaxTail}

\* the callers that call parse_trip_request side by side, and their texts
Callers == {"a", "b"}

ConcurrentTexts ==
  {\* May 5-7 for two, $3k
   <<"M","a","y"," ","5","-","7"," ","f","o","r"," ","t","w","o",","," ","$","3","k">>,
   \* visit Rome, 4 days, must see art
   <<"v","i","s","i","t"," ","R","o","m","e",","," ","4"," ","d","a","y","s",","," ","m","u","s","t"," ","s","e","e"," ","a","r","t">>}

\* the local names of parse_trip_request that hold what the extractors
\* returned, in the order of the calls
Locals ==
  <<"destination", "departure", "window", "duration", "travelers", "budget",
    "interests", "constraints">>

\* a caller that has not called yet: pc is 0 before the call, k while local k
\* is the next to be assigned, Len(Locals) + 1 before the return and
\* Len(Locals) + 2 after it
Idle == [pc |-> 0, text |-> <<>>, year |-> 0, ret |-> None]

\* the frame of a call before any of its locals is assigned
NoLocals ==
  [destination |-> None, departure |-> None, window |-> NoWindow,
   duration |-> None, travelers |-> Travelers(None, 0),
   budget |-> Ret(Budget(None, None, None)), interests |-> <<>>,
   constraints |-> <<>>]

\* A run is one call of one function on text, or (op = "concurrent") the
\* callers calling parse_trip_request side by side, each on a text of its own.
(***************************************************************************)
(* bookingagent.py: process_booking_data and book_flight_and_hotel         *)
(***************************************************************************)
\* the longest list of itinerary segments of an input
MaxSegments == 2

\* The "details" of a segment are the set of the keys they hold, of the keys
\* that book_flight_and_hotel reads before its try block and of "price"
\* ({} is the empty dictionary).
DetailShapes ==
  { {},
    {"price"},
    {"arrival_airport"},
    {"check_in_date"},
    {"check_in_date", "check_out_date"},
    {"price", "arrival_airport", "check_in_date", "check_out_date"} }

Segments ==
  {[type |-> t, details |-> d] : t \in {"flight", "hotel"}, d \in DetailShapes}
    \cup {[type |-> "car", details |-> {"price"}]}

SegmentLists == UNION {[1..n -> Segments] : n \in 0..MaxSegments}

\* What json.loads gives for an input: a dictionary with some of the keys
\* "traveler_info" and "itinerary", whose itinerary has a "segments" list or
\* not; a list; nothing, for a string that is not JSON ("invalid") and for
\* the argument None ("none").
JsonDicts ==
  {[top |-> "dict", keys |-> k, has_segments |-> FALSE, segments |-> <<>>] :
      k \in SUBSET {"traveler_info", "itinerary"}}
    \cup
  {[top |-> "dict", keys |-> k \cup {"itinerary"}, has_segments |-> TRUE, segments |-> s] :
      k \in SUBSET {"traveler_info"}, s \in SegmentLists}

JsonOf(t) == [top |-> t, keys |-> {}, has_segments |-> FALSE, segments |-> <<>>]

\* The arguments of book_flight_and_hotel: a dictionary, which json.dumps
\* can serialize or not; a string, of a JSON dictionary, of a JSON list, or
\* not JSON at all; None.
BookingArgs ==
  {[given |-> "dict", serializable |-> b, data |-> d] : b \in BOOLEAN, d \in JsonDicts}
    \cup
  {[given |-> "str", serializable |-> TRUE, data |-> d] :
      d \in JsonDicts \cup {JsonOf("list"), JsonOf("invalid")}}
    \cup
  {[given |-> "None", serializable |-> TRUE, data |-> JsonOf("none")]}

\* next((s['details'] for s in segments if s['type'] == type), None)
FirstDetails(segments, type) ==
  LET at == {i \in 1..Len(segments) : segments[i].type = type}
  IN  IF at = {} THEN None
      ELSE Some(segments[CHOOSE i \in at : \A j \in at : i <= j].details)

\* "not flight" is false for details that are there and hold a key
Truthy(details) == IsSome(details) /\ details[1] # {}

BookingError(e) == [status |-> "error", error_message |-> e]

\* process_booking_data(booking_json): the try block raises at its line 114
\* (or before it, in json.loads), and the handler of line 194 builds the
\* result from the parsed data; what its own try block raises becomes an
\* error record, named here by the exception.
ProcessBookingData(booking_json) ==
  LET data == booking_json.data
      flight == FirstDetails(data.segments, "flight")
      hotel == FirstDetails(data.segments, "hotel")
  IN  IF booking_json.given = "str" /\ data.top = "invalid"
        THEN BookingError("JSONDecodeError")
      ELSE IF data.top = "none" THEN BookingError("TypeError")
      ELSE IF data.top = "list" THEN BookingError("TypeError")
      ELSE IF ~ ({"traveler_info", "itinerary"} \subseteq data.keys)
        THEN BookingError("KeyError")
      ELSE IF ~ data.has_segments THEN BookingError("KeyError")
      ELSE IF ~ Truthy(flight) \/ ~ Truthy(hotel) THEN BookingError("ValueError")
      ELSE [status |-> "success", flight |-> flight[1], hotel |-> hotel[1]]

\* the state of a call of book_flight_and_hotel: where it stands; its
\* argument; whether the module runs as __main__, so that its name
\* sample_booking_data is defined; processed_data; the browser driver ("none":
\* the name driver is not bound); what the except block left to do after the
\* finally block.
NoBooking ==
  [pc |-> "idle", booking_data |-> [given |-> "None", serializable |-> TRUE, data |-> JsonOf("none")],
   as_main |-> FALSE, processed_data |-> [status |-> ""], driver |-> "none",
   caught |-> "", quit_raised |-> FALSE, pending |-> None]

Init ==
  /\ \/ text \in Texts /\ op = "" /\ booking = NoBooking
     \/ text = <<>> /\ op = "concurrent" /\ booking = NoBooking
     \/ /\ text = <<>>
        /\ op = "book_flight_and_hotel"
        /\ \E a \in BookingArgs, m \in BOOLEAN :
             booking = [NoBooking EXCEPT !.pc = "start", !.booking_data = a, !.as_main = m]
  /\ year_now = 0
  /\ ret = None
  /\ calls = [c \in Callers |-> Idle]
  /\ frames = [c \in Callers |-> NoLocals]

\* _find_month_or_window(text), called in year y
CallFindMonthOrWindow ==
  /\ op = ""
  /\ \E y \in Years :
       /\ year_now' = y
       /\ ret' = Ret(FindMonthOrWindow(text, y))
  /\ op' = "_find_month_or_window"
  /\ UNCHANGED <<text, calls, frames, booking>>

\* _find_budget(text)
CallFindBudget ==
  /\ op = ""
  /\ ret' = FindBudget(text)
  /\ op' = "_find_budget"
  /\ UNCHANGED <<text, year_now, calls, frames, booking>>

\* parse_trip_request(text), called in year y
CallParseTripRequest ==
  /\ op = ""
  /\ \E y \in Years :
       /\ year_now' = y
       /\ ret' = ParseTripRequest(text, y)
  /\ op' = "parse_trip_request"
  /\ UNCHANGED <<text, calls, frames, booking>>

\* _find_duration_days(text)
CallFindDurationDays ==
  /\ op = ""
  /\ ret' = Ret(FindDurationDays(text))
  /\ op' = "_find_duration_days"
  /\ UNCHANGED <<text, year_now, calls, frames, booking>>

\* _find_travelers(text)
CallFindTravelers ==
  /\ op = ""
  /\ ret' = Ret(FindTravelers(text))
  /\ op' = "_find_travelers"
  /\ UNCHANGED <<text, year_now, calls, frames, booking>>

\* _find_interests(text)
CallFindInterests ==
  /\ op = ""
  /\ ret' = Ret(FindInterests(text))
  /\ op' = "_find_interests"
  /\ UNCHANGED <<text, year_now, calls, frames, booking>>

\* _find_constraints(text)
CallFindConstraints ==
  /\ op = ""
  /\ ret' = Ret(FindConstraints(text))
  /\ op' = "_find_constraints"
  /\ UNCHANGED <<text, year_now, calls, frames, booking>>

\* FrameOf as it would be if the locals were names of the module, one set
\* for all calls
FrameOfShared(c) == "a"

\* the frame that holds the locals of the call of caller c: every call has
\* a frame of its own
FrameOf(c) == c

\* the extractor whose result local k takes, on text T in year y
Extract(k, T, y) ==
  CASE k = 1 -> FindDestination(T)
    [] k = 2 -> FindDepartureCity(T)
    [] k = 3 -> FindMonthOrWindow(T, y)
    [] k = 4 -> FindDurationDays(T)
    [] k = 5 -> FindTravelers(T)
    [] k = 6 -> FindBudget(T)
    [] k = 7 -> FindInterests(T)
    [] k = 8 -> FindConstraints(T)

\* the value of pc after local k took value v: an exception of _find_budget
\* ends the call
PcAfter(k, v) ==
  IF Locals[k] = "budget" /\ v.raised # "" THEN Len(Locals) + 1 ELSE k + 1

\* caller c calls parse_trip_request(t): text = text.strip()
Enter(c) ==
  /\ op = "concurrent"
  /\ calls[c].pc = 0
  /\ \E t \in ConcurrentTexts :
       calls' = [calls EXCEPT ![c] = [pc |-> 1, text |-> Strip(t), year |-> 0, ret |-> None]]
  /\ frames' = [frames EXCEPT ![FrameOf(c)] = NoLocals]
  /\ UNCHANGED <<text, op, year_now, ret, booking>>

\* the call of caller c with its local k, value v, assigned in year y
Assigned(c, k, v, y) ==
  /\ frames' = [frames EXCEPT ![FrameOf(c)][Locals[k]] = v]
  /\ calls' = [calls EXCEPT ![c].pc = PcAfter(k, v), ![c].year = y]

\* the call of caller c runs its next extractor and assigns the local; the
\* date window resolver reads the clock
RunExtractor(c) ==
  /\ op = "concurrent"
  /\ calls[c].pc \in 1..Len(Locals)
  /\ IF Locals[calls[c].pc] = "window"
     THEN \E y \in Years :
            Assigned(c, calls[c].pc, Extract(calls[c].pc, calls[c].text, y), y)
     ELSE Assigned(c, calls[c].pc,
                   Extract(calls[c].pc, calls[c].text, calls[c].year), calls[c].year)
  /\ UNCHANGED <<text, op, year_now, ret, booking>>

\* what the call returns, given its text T and its frame f
ReturnOf(T, f) ==
  Assemble(T, f.destination, f.departure, f.window, f.duration, f.travelers,
           f.budget, f.interests, f.constraints)

\* the call of caller c builds the record from its locals and returns
Return(c) ==
  /\ op = "concurrent"
  /\ calls[c].pc = Len(Locals) + 1
  /\ calls' = [calls EXCEPT ![c].pc = Len(Locals) + 2,
                            ![c].ret = ReturnOf(calls[c].text, frames[FrameOf(c)])]
  /\ UNCHANGED <<text, op, year_now, ret, frames, booking>>

\* one step of one of the concurrent callers
\* lines 255-258: json.dumps(booking_data) for a dictionary, outside every
\* try block
DumpBookingData ==
  /\ op = "book_flight_and_hotel"
  /\ booking.pc = "start"
  /\ IF booking.booking_data.given = "dict" /\ ~ booking.booking_data.serializable
       THEN /\ ret' = Raise("TypeError")
            /\ booking' = [booking EXCEPT !.pc = "done"]
       ELSE /\ ret' = ret
            /\ booking' = [booking EXCEPT !.pc = "process",
                              !.booking_data.given = IF @ = "dict" THEN "str" ELSE @]
  /\ UNCHANGED <<text, op, year_now, calls, frames>>

\* lines 261-263: an error record of process_booking_data is returned as it
\* is
CallProcessBookingData ==
  /\ op = "book_flight_and_hotel"
  /\ booking.pc = "process"
  /\ LET processed_data == ProcessBookingData(booking.booking_data)
     IN  IF processed_data.status = "error"
           THEN /\ ret' = Ret(processed_data)
                /\ booking' = [booking EXCEPT !.pc = "done", !.processed_data = processed_data]
           ELSE /\ ret' = ret
                /\ booking' = [booking EXCEPT !.pc = "read", !.processed_data = processed_data]
  /\ UNCHANGED <<text, op, year_now, calls, frames>>

\* lines 266-272, before the try block: hotel['check_in_date'],
\* hotel['check_out_date'] and flight['arrival_airport']
ReadProcessedData ==
  /\ op = "book_flight_and_hotel"
  /\ booking.pc = "read"
  /\ IF /\ {"check_in_date", "check_out_date"} \subseteq booking.processed_data.hotel
        /\ "arrival_airport" \in booking.processed_data.flight
       THEN /\ ret' = ret
            /\ booking' = [booking EXCEPT !.pc = "try"]
       ELSE /\ ret' = Raise("KeyError")
            /\ booking' = [booking EXCEPT !.pc = "done"]
  /\ UNCHANGED <<text, op, year_now, calls, frames>>

\* lines 274-464, the try block: installing the driver or starting Chrome
\* raises and driver stays unbound, or the driver is created and a call of
\* it raises or, at the latest, line 299 does: traveler comes out of
\* json.loads, and nothing that json.loads gives has an attribute first_name.
\* So the try block always ends in the handler, before the navigation loop of
\* lines 305-342.
TryAutomation ==
  /\ op = "book_flight_and_hotel"
  /\ booking.pc = "try"
  /\ \E created \in BOOLEAN :
       booking' = [booking EXCEPT !.pc = "except",
                      !.driver = IF created THEN "created" ELSE "none",
                      !.caught = IF created THEN "AttributeError" ELSE "WebDriverException"]
  /\ UNCHANGED <<text, op, year_now, ret, calls, frames>>

\* lines 466-505, the handler: the simulated booking is built from
\* sample_booking_data, a name that line 517 defines under
\* if __name__ == "__main__"
ExceptFallback ==
  /\ op = "book_flight_and_hotel"
  /\ booking.pc = "except"
  /\ booking' = [booking EXCEPT !.pc = "finally",
                    !.pending = IF booking.as_main
                                  THEN Ret([status |-> "success", simulated |-> TRUE])
                                  ELSE Raise("NameError")]
  /\ UNCHANGED <<text, op, year_now, ret, calls, frames>>

\* lines 506-513, the finally block: a bound driver is quit, and what quit
\* raises is printed and dropped; then the function returns or raises what the
\* handler left
FinallyQuit ==
  /\ op = "book_flight_and_hotel"
  /\ booking.pc = "finally"
  /\ IF booking.driver = "created"
       THEN \E raised \in BOOLEAN :
              booking' = [booking EXCEPT !.pc = "done", !.driver = "quit", !.quit_raised = raised]
       ELSE booking' = [booking EXCEPT !.pc = "done"]
  /\ ret' = booking.pending
  /\ UNCHANGED <<text, op, year_now, calls, frames>>

\* book_flight_and_hotel(booking_data)
BookFlightAndHotel ==
  \/ DumpBookingData
  \/ CallProcessBookingData
  \/ ReadProcessedData
  \/ TryAutomation
  \/ ExceptFallback
  \/ FinallyQuit

ConcurrentNext == \E c \in Callers : Enter(c) \/ RunExtractor(c) \/ Return(c)

Next ==
  \/ ConcurrentNext
  \/ CallFindMonthOrWindow
  \/ CallFindBudget
  \/ CallParseTripRequest
  \/ CallFindDurationDays
  \/ CallFindTravelers
  \/ CallFindInterests
  \/ CallFindConstraints
  \/ BookFlightAndHotel

Spec == Init /\ [][Next]_vars

\* the calls of the date window resolver alone, and of the budget extractor
WindowSpec == Init /\ [][CallFindMonthOrWindow]_vars
BudgetSpec == Init /\ [][CallFindBudget]_vars
\* the calls of each of the other extractors alone
DurationSpec == Init /\ [][CallFindDurationDays]_vars
TravelerSpec == Init /\ [][CallFindTravelers]_vars
InterestSpec == Init /\ [][CallFindInterests]_vars
ConstraintSpec == Init /\ [][CallFindConstraints]_vars
\* the concurrent callers alone
ConcurrentSpec == Init /\ [][ConcurrentNext]_vars
\* the calls of book_flight_and_hotel alone
BookingSpec == Init /\ [][BookFlightAndHotel]_vars

(***************************************************************************)
(* Claims                                                                  *)
(***************************************************************************)
\* what a call returned
Returned == ret.raised = ""
Out == ret.ret

\* C1: parse_trip_request never raises: every call returns a record with
\* status "success" whose notes are the input without its leading and
\* trailing whitespace.
C1_NeverRaises ==
  op = "parse_trip_request" =>
    /\ Returned
    /\ Out.status = "success"
    /\ Out.spec.notes = Strip(text)

\* is window w a date range without a month
IsRange(w) == IsSome(w.start_date) /\ IsSome(w.end_date) /\ ~IsSome(w.month)
\* is window w a month without dates
IsMonthOnly(w) == ~IsSome(w.start_date) /\ ~IsSome(w.end_date) /\ IsSome(w.month)

\* C2: a result of _find_month_or_window holds start_date and end_date
\* together or not at all, and never a month beside a date range: it is a
\* range, a month, or nothing.
C2_RangeOrMonthOrNothing ==
  op = "_find_month_or_window" =>
    /\ IsSome(Out.start_date) <=> IsSome(Out.end_date)
    /\ ~(IsSome(Out.month) /\ IsSome(Out.start_date))
    /\ IsRange(Out) \/ IsMonthOnly(Out) \/ Out = NoWindow

\* C2's case: a range was returned for a text whose first word names a
\* month, so the plain-month rule alone would have set month
C2_Witness ==
  /\ op = "_find_month_or_window"
  /\ IsRange(Out)
  /\ IsSome(PlainMonthRule(text))

\* the result of the first of the rules, in their order, that yields one
FirstResult(rules) ==
  IF \A j \in 1..Len(rules) : ~IsSome(rules[j]) THEN NoWindow
  ELSE Val(rules[CHOOSE j \in 1..Len(rules) :
                   IsSome(rules[j]) /\ \A q \in 1..(j - 1) : ~IsSome(rules[q])])

\* did pattern pat (its first month group being g and its groups ng) match
\* with a known month
MatchedKnownMonth(T, m, g) == m.ok /\ IsSome(MonNum(Val(Group(T, m, g))))

\* C3: the resolver returns the result of the first of ISO range,
\* named-month range, day-range-before-month, "between", bare month that
\* matches and validates; a match of one of the middle three whose date
\* cannot be constructed is dropped, the later patterns are tried, and the
\* call returns (it does not raise).
C3_CascadeOrder ==
  op = "_find_month_or_window" =>
    /\ Returned
    /\ Out = FirstResult(<<IsoRule(text), Pat1Rule(text, year_now),
                           Pat2Rule(text, year_now), Pat3Rule(text, year_now),
                           PlainMonthRule(text)>>)

\* C3's case: the named-month pattern matched with a known month, its date
\* could not be constructed, and the call ended at the bare-month fallback
C3_Witness ==
  /\ op = "_find_month_or_window"
  /\ MatchedKnownMonth(text, Search(text, Pat1, 6, TRUE), 1)
  /\ ~IsSome(Pat1Rule(text, year_now))
  /\ IsMonthOnly(Out)

C4_Phrasings ==
  {<<"O","c","t"," ","5","t","h"," ","t","o"," ","1","5","t","h",","," ","2","0","2","5">>,
   <<"5","-","1","5"," ","O","c","t","o","b","e","r"," ","2","0","2","5">>,
   <<"b","e","t","w","e","e","n"," ","O","c","t"," ","5"," ","a","n","d"," ","1","5",","," ","2","0","2","5">>}

\* C4: in whatever year the call is made, each of "Oct 5th to 15th, 2025",
\* "5-15 October 2025" and "between Oct 5 and 15, 2025" gives start_date
\* 2025-10-05, end_date 2025-10-15 and no month.
C4_YearAppliesToBothEnds ==
  (op = "_find_month_or_window" /\ text \in C4_Phrasings) =>
    Out = [start_date |-> Some(<<"2","0","2","5","-","1","0","-","0","5">>),
           end_date |-> Some(<<"2","0","2","5","-","1","0","-","1","5">>),
           month |-> None]

\* is s a calendar date written YYYY-MM-DD
IsCalendarDate(s) ==
  /\ Len(s) = 10
  /\ s[5] = "-" /\ s[8] = "-"
  /\ \A j \in {1, 2, 3, 4, 6, 7, 9, 10} : IsDigit(s[j])
  /\ DateOk(IntOf(SubSeq(s, 1, 4)), IntOf(SubSeq(s, 6, 7)), IntOf(SubSeq(s, 9, 10)))

\* C5: a start_date or end_date that is present is a calendar date written
\* YYYY-MM-DD, whichever pattern produced it.
C5_DatesAreCalendarDates ==
  op = "_find_month_or_window" =>
    /\ IsSome(Out.start_date) => IsCalendarDate(Val(Out.start_date))
    /\ IsSome(Out.end_date) => IsCalendarDate(Val(Out.end_date))

\* does word w (lower-case letters) stand in T at position s as a whole
\* word, in either case: no letter right before it or right after it
WordAt(T, s, w) ==
  /\ s + Len(w) - 1 <= Len(T)
  /\ s = 1 \/ ~IsAlpha(T[s - 1])
  /\ s + Len(w) > Len(T) \/ ~IsAlpha(T[s + Len(w)])
  /\ \A q \in 1..Len(w) : LowerChar(T[s + q - 1]) = w[q]

Mentions(T, w) == \E s \in 1..Len(T) : WordAt(T, s, w)

\* the months whose name or three-letter abbreviation T mentions
MentionedMonths(T) ==
  {MONTHS[j].v : j \in {q \in 1..Len(MONTHS) :
                          Mentions(T, MONTHS[q].k) \/ Mentions(T, MONTH_ABBR[q].k)}}

\* no date-range pattern yields a range for T
NoRangeValidates(T, y) ==
  /\ ~IsSome(IsoRule(T))
  /\ ~IsSome(Pat1Rule(T, y))
  /\ ~IsSome(Pat2Rule(T, y))
  /\ ~IsSome(Pat3Rule(T, y))

\* C6: when no date-range pattern validates and the text mentions a month
\* (by name or abbreviation, with or without "in" before it), month is that
\* month's number and start_date and end_date are absent, wherever in the
\* text the month stands.
C6_MonthAnywhere ==
  op = "_find_month_or_window" =>
    \A n \in 1..12 :
      (MentionedMonths(text) = {n} /\ NoRangeValidates(text, year_now)) =>
        Out = [start_date |-> None, end_date |-> None, month |-> Some(n)]

\* did the pattern of currency sign j match with a number that is not blank
SignMatched(T, m) == m.ok /\ Len(Strip(Val(Group(T, m, 1)))) > 0

\* no rule of _find_budget matches T
NoBudgetRuleMatches(T) ==
  /\ \A j \in 1..Len(CURRENCY_SIGNS) :
       ~SignMatched(T, Search(T, SignPat(CURRENCY_SIGNS[j].k), 1, TRUE))
  /\ ~Search(T, CurrencyWordPat, 2, TRUE).ok
  /\ ~Search(T, BudgetNumPat, 1, TRUE).ok
  /\ ~Search(T, FriendlyPat, 0, TRUE).ok
  /\ ~Search(T, LuxuryPat, 0, TRUE).ok
  /\ ~Search(T, MidRangePat, 0, TRUE).ok

\* C7: in a result of _find_budget amount is present exactly when currency
\* is, tag is present only when both are absent, and when no rule matches
\* all three are absent.
C7_AmountCurrencyOrTag ==
  (op = "_find_budget" /\ Returned) =>
    /\ IsSome(Out.amount) <=> IsSome(Out.currency)
    /\ IsSome(Out.tag) => (~IsSome(Out.amount) /\ ~IsSome(Out.currency))
    /\ NoBudgetRuleMatches(text) => Out = Budget(None, None, None)

\* C7's case: a tag was returned for a text in which a numeric rule matched
\* (and found no amount)
C7_Witness ==
  /\ op = "_find_budget"
  /\ Returned
  /\ IsSome(Out.tag)
  /\ SignMatched(text, Search(text, SignPat(<<"$">>), 1, TRUE))

\* C8: the amount of a result is never zero: a number that normalizes to
\* zero is no amount for any rule.
C8_AmountNeverZero ==
  (op = "_find_budget" /\ Returned) => Out.amount # Some(0)

\* b is what the rules give in their order, r1, r2 and r3 being the outcomes
\* of the sign rule, the currency-word rule and the "budget N" rule on T
InPrecedence(b, r1, r2, r3, T) ==
  /\ r1.kind = "return" => b = r1.b
  /\ (r1.kind = "next" /\ r2.kind = "return") => b = r2.b
  /\ (r1.kind = "next" /\ r2.kind = "next" /\ r3.kind = "return") =>
       (b = r3.b /\ b.currency = Some(USD))
  /\ IsSome(b.tag) => (r1.kind = "next" /\ r2.kind = "next" /\ r3.kind = "next")
  /\ (r1.kind = "next" /\ r2.kind = "next" /\ r3.kind = "next") =>
       /\ ~IsSome(b.amount)
       /\ Search(T, FriendlyPat, 0, TRUE).ok => b.tag = Some(TagFriendly)
       /\ b.tag = Some(TagLuxury) =>
            (~Search(T, FriendlyPat, 0, TRUE).ok /\ Search(T, LuxuryPat, 0, TRUE).ok)
       /\ b.tag = Some(TagMidRange) =>
            /\ ~Search(T, FriendlyPat, 0, TRUE).ok
            /\ ~Search(T, LuxuryPat, 0, TRUE).ok
            /\ Search(T, MidRangePat, 0, TRUE).ok
       /\ ~IsSome(b.tag) =>
            /\ ~Search(T, FriendlyPat, 0, TRUE).ok
            /\ ~Search(T, LuxuryPat, 0, TRUE).ok
            /\ ~Search(T, MidRangePat, 0, TRUE).ok

\* C9: the rules apply in the order currency sign, currency word,
\* "budget N" (currency USD), then the bands budget-friendly, luxury,
\* mid-range; the first rule that returns decides, and a tag is returned
\* only when none of the three numeric rules returned.
C9_RulePrecedence ==
  (op = "_find_budget" /\ Returned) =>
    InPrecedence(Out, SignRule(text, 1), CurrencyWordRule(text),
                 BudgetNumRule(text), text)

\* r1 and r2 both return, with different budgets
BothReturn(r1, r2) == r1.kind = "return" /\ r2.kind = "return" /\ r1.b # r2.b

\* C9's case: the sign rule and the currency-word rule both find an amount
\* in the text, and the result is the sign rule's
C9_Witness ==
  /\ op = "_find_budget"
  /\ Returned
  /\ BothReturn(SignRule(text, 1), CurrencyWordRule(text))
  /\ Out.currency = Some(USD)

\* the positions where a number with a non-zero first digit starts
AmountStarts(T) ==
  {p \in 2..Len(T) : IsDigit(T[p]) /\ T[p] # "0" /\ ~IsDigit(T[p - 1])}

\* does sign end right before position p
SignEndsBefore(T, sign, p) ==
  /\ p - Len(sign) >= 1
  /\ \A q \in 1..Len(sign) : T[p - Len(sign) + q - 1] = sign[q]

\* the entries of CURRENCY_SIGNS whose sign stands right before position p
SignsBefore(T, p) ==
  {j \in 1..Len(CURRENCY_SIGNS) : SignEndsBefore(T, CURRENCY_SIGNS[j].k, p)}

\* the positions of the amounts with a sign right before them
SignedAmounts(T) == {p \in AmountStarts(T) : SignsBefore(T, p) # {}}

\* the lexicon's code of the sign before position p: "A$500" is signed A$
SignCode(T, p) ==
  CURRENCY_SIGNS[CHOOSE j \in SignsBefore(T, p) :
                   \A q \in SignsBefore(T, p) :
                      Len(CURRENCY_SIGNS[j].k) >= Len(CURRENCY_SIGNS[q].k)].v

\* C10: an amount with a currency sign right before it gets the code the
\* lexicon gives that sign: $ USD, EURO EUR, POUND GBP, RUPEE INR, YEN JPY,
\* WON KRW, A$ AUD, C$ CAD.
C10_SignGivesCurrency ==
  (op = "_find_budget" /\ Returned) =>
    \A p \in SignedAmounts(text) :
      SignedAmounts(text) = {p} => Out.currency = Some(SignCode(text, p))

\* the characters of s that are neither whitespace nor a thousands separator
Separated(s) ==
  LET Keep(x) == ~IsSpace(x) /\ x # ","
  IN SelectSeq(s, Keep)

\* the digits of the number text p, without the "k" that may end it
DigitsOf(p) ==
  IF Len(p) > 0 /\ p[Len(p)] = "k" THEN SubSeq(p, 1, Len(p) - 1) ELSE p

\* is tok a whole number that is not zero, of one to six digits, written with
\* thousands separators and whitespace or without, with "k" at its end or not
IsAmountToken(tok) ==
  /\ Len(DigitsOf(Separated(LowerStr(tok)))) \in 1..6
  /\ \A j \in 1..Len(DigitsOf(Separated(LowerStr(tok)))) :
        IsDigit(DigitsOf(Separated(LowerStr(tok)))[j])
  /\ \E j \in 1..Len(DigitsOf(Separated(LowerStr(tok)))) :
        DigitsOf(Separated(LowerStr(tok)))[j] # "0"

\* the number tok stands for: "k" at its end multiplies by 1000
TokenValue(tok) ==
  IF Separated(LowerStr(tok)) = DigitsOf(Separated(LowerStr(tok)))
  THEN IntOf(DigitsOf(Separated(LowerStr(tok))))
  ELSE 1000 * IntOf(DigitsOf(Separated(LowerStr(tok))))

\* budget b is the amount of the number that match m of the "$" pattern found
DollarAmount(T, m, b) ==
  (m.ok /\ IsAmountToken(Val(Group(T, m, 1)))) =>
    b = Budget(Some(TokenValue(Val(Group(T, m, 1)))), Some(USD), None)

C11_Examples ==
  {<<"$","3","k">>, <<"3",",","0","0","0"," ","u","s","d">>}

\* C11: the number of a budget is read with its thousands separators and
\* whitespace stripped and multiplied by 1000 when it ends in "k": "$3k" and
\* "3,000 usd" both give amount 3000 with currency USD.
C11_NumberNormalized ==
  (op = "_find_budget" /\ Returned) =>
    /\ text \in C11_Examples => Out = Budget(Some(3000), Some(USD), None)
    /\ DollarAmount(text, Search(text, SignPat(<<"$">>), 1, TRUE), Out)

\* travelers out is the split of the family of N that match m of the
\* "family of N" pattern found in T
FamilySplit(T, m, out) ==
  m.ok =>
    LET N == IntOf(Val(Group(T, m, 1)))
    IN /\ IsSome(out.adults)
       /\ N >= 3 => (Val(out.adults) = Max2(2, N - 2) /\ out.children = N - Val(out.adults))
       /\ N < 3 => (Val(out.adults) = N /\ out.children = 0)
       /\ Val(out.adults) + out.children = N

\* C12: for a text with "family of N": if N >= 3, adults = max(2, N - 2) and
\* children = N - adults; if N < 3, adults = N and children = 0; adults and
\* children add up to N (family of 5: 3 and 2; family of 2: 2 and 0).
C12_FamilyOfN ==
  op = "_find_travelers" =>
    /\ FamilySplit(text, Search(text, FamilyPat, 1, TRUE), Out)
    /\ text = <<"f","a","m","i","l","y"," ","o","f"," ","5">> => Out = Travelers(Some(3), 2)
    /\ text = <<"f","a","m","i","l","y"," ","o","f"," ","2">> => Out = Travelers(Some(2), 0)

\* C12's case: a family of three, the one size where max(2, N - 2) is not N - 2
C12_Witness ==
  /\ op = "_find_travelers"
  /\ Search(text, FamilyPat, 1, TRUE).ok
  /\ Out = Travelers(Some(2), 1)

\* the entries of WORD_NUMS whose word stands in T before people, persons or
\* adult(s)
CountWordHits(T) ==
  {j \in 1..Len(WORD_NUMS) : Search(T, CountWordPat(WORD_NUMS[j].k), 0, TRUE).ok}

\* the number that the word or the digits after "for" stand for
ForValue(w) == IF IsDigitStr(w) THEN IntOf(w) ELSE Val(Get(WORD_NUMS, w))

\* travelers out is what the first rule that matches gives, fam, cnt, for and
\* couple being the matches of the four patterns in T and wrd the hits of the
\* word numbers
TravelersInPrecedence(T, out, fam, cnt, wrd, for, couple) ==
  /\ fam.ok => Val(out.adults) + out.children = IntOf(Val(Group(T, fam, 1)))
  /\ (~fam.ok /\ cnt.ok) => out = Travelers(Some(IntOf(Val(Group(T, cnt, 1)))), 0)
  /\ (~fam.ok /\ ~cnt.ok /\ wrd # {}) =>
       \E j \in wrd :
          /\ \A q \in wrd : j <= q
          /\ out = Travelers(Some(WORD_NUMS[j].v), 0)
  /\ (~fam.ok /\ ~cnt.ok /\ wrd = {} /\ for.ok) =>
       out = Travelers(Some(ForValue(LowerStr(Val(Group(T, for, 1))))), 0)
  /\ (~fam.ok /\ ~cnt.ok /\ wrd = {} /\ ~for.ok /\ couple.ok) =>
       out = Travelers(Some(2), 0)
  /\ (~fam.ok /\ ~cnt.ok /\ wrd = {} /\ ~for.ok /\ ~couple.ok) =>
       out = Travelers(None, 0)
  /\ out.children # 0 => fam.ok

\* C13: the traveler rules apply in the order "family of N", "N adults /
\* people / persons", word number + people / persons / adults, "for <word or
\* digits>", "couple" / "honeymoon" (adults 2); the first that matches decides;
\* only the family rule sets children to a number other than 0; when no rule
\* matches adults is absent and children is 0.
C13_TravelerPrecedence ==
  op = "_find_travelers" =>
    TravelersInPrecedence(text, Out, Search(text, FamilyPat, 1, TRUE),
                          Search(text, CountPat, 1, TRUE), CountWordHits(text),
                          Search(text, ForPat, 1, TRUE),
                          Search(text, CouplePat, 1, TRUE))

\* C13's case: "family of N" and "N adults" both stand in the text, they
\* disagree, and the result is the family's
C13_Witness ==
  /\ op = "_find_travelers"
  /\ Search(text, FamilyPat, 1, TRUE).ok
  /\ Search(text, CountPat, 1, TRUE).ok
  /\ Out.children > 0

\* is option o absent, or a number that is at least 1
AbsentOrPositive(o) == IsSome(o) => Val(o) >= 1

\* C14: in every output duration_days and travelers.adults are absent or at
\* least 1, and travelers.children is at least 0: a count of 0 in the text
\* ("0 days", "0 people", "family of 0", "for 0") never gives a field that is
\* present and 0.
C14_CountsPositive ==
  (op = "parse_trip_request" /\ Returned) =>
    /\ AbsentOrPositive(Out.spec.duration_days)
    /\ AbsentOrPositive(Out.spec.travelers.adults)
    /\ Out.spec.travelers.children >= 0

\* the decimal text of a number below 100
NumText(n) ==
  IF n < 10 THEN <<DigitChr[n + 1]>>
  ELSE <<DigitChr[(n \div 10) + 1], DigitChr[(n % 10) + 1]>>

DurationUnits ==
  {<<"d","a","y">>, <<"d","a","y","s">>, <<"n","i","g","h","t">>, <<"n","i","g","h","t","s">>}

\* C15: the digit form and the word form of a number give the same count of
\* days, joined to the unit by a space or by a hyphen, and nights count as
\* days: "four-day" and "4 days" both give 4.
C15_WordAndDigitForms ==
  op = "_find_duration_days" =>
    \A j \in 1..Len(WORD_NUMS) : \A sep \in {" ", "-"} : \A unit \in DurationUnits :
      (\/ text = WORD_NUMS[j].k \o <<sep>> \o unit
       \/ text = NumText(WORD_NUMS[j].v) \o <<sep>> \o unit) =>
        Out = Some(WORD_NUMS[j].v)

\* does w (lower-case) stand in T at position s as a whole word, in either
\* case: no word character right before it or right after it
StandsAt(T, s, w) ==
  /\ s + Len(w) - 1 <= Len(T)
  /\ s = 1 \/ ~IsWord(T[s - 1])
  /\ s + Len(w) > Len(T) \/ ~IsWord(T[s + Len(w)])
  /\ \A q \in 1..Len(w) : LowerChar(T[s + q - 1]) = w[q]

OccursAsWord(T, w) == \E s \in 1..Len(T) : StandsAt(T, s, w)

\* the tags in ascending order
SortedTags ==
  <<<<"a","d","v","e","n","t","u","r","e">>, <<"a","r","t">>, <<"f","a","m","i","l","y">>,
    <<"f","o","o","d">>, <<"h","i","s","t","o","r","y">>, <<"n","a","t","u","r","e">>,
    <<"n","i","g","h","t","l","i","f","e">>, <<"r","o","m","a","n","c","e">>,
    <<"s","h","o","p","p","i","n","g">>>>

\* the place of tag in SortedTags, 0 when it is no tag
TagRank(tag) ==
  IF \E q \in 1..Len(SortedTags) : SortedTags[q] = tag
  THEN CHOOSE q \in 1..Len(SortedTags) : SortedTags[q] = tag
  ELSE 0

\* has the category with index j in INTEREST_KEYWORDS a trigger word in T
Triggered(T, j) ==
  \E x \in 1..Len(INTEREST_KEYWORDS[j].v) : OccursAsWord(T, INTEREST_KEYWORDS[j].v[x])

\* C16: the interests are tags of the fixed vocabulary in strictly ascending
\* order (sorted, none twice), and a tag is among them exactly when one of
\* its trigger words stands in the text as a whole word, ignoring case.
C16_InterestsSortedSet ==
  op = "_find_interests" =>
    /\ \A i \in 1..Len(Out) : TagRank(Out[i]) > 0
    /\ \A i \in 1..(Len(Out) - 1) : TagRank(Out[i]) < TagRank(Out[i + 1])
    /\ \A j \in 1..Len(INTEREST_KEYWORDS) :
          (\E i \in 1..Len(Out) : Out[i] = INTEREST_KEYWORDS[j].k) <=> Triggered(text, j)

\* C16's case: two trigger words of one category, and words of two
\* categories out of their order, in the text
C16_Witness ==
  /\ op = "_find_interests"
  /\ \/ /\ OccursAsWord(text, <<"m","u","s","e","u","m">>)
        /\ OccursAsWord(text, <<"g","a","l","l","e","r","y">>)
        /\ Out = <<<<"a","r","t">>>>
     \/ /\ OccursAsWord(text, <<"t","h","e","m","e"," ","p","a","r","k">>)
        /\ Out = <<<<"f","a","m","i","l","y">>, <<"n","a","t","u","r","e">>>>

ClauseEnds == {".", ",", ";"}

\* the position after the clause that starts at s: that of the next ".", ","
\* or ";", or the end of the text
ClauseEnd(T, s) ==
  IF \E e \in s..Len(T) : T[e] \in ClauseEnds
  THEN CHOOSE e \in s..Len(T) : T[e] \in ClauseEnds /\ \A x \in s..(e - 1) : T[x] \notin ClauseEnds
  ELSE Len(T) + 1

\* does keyword kw stand at position s of T, in either case, with a word
\* boundary on both sides
KeywordAt(T, s, kw) ==
  /\ s + Len(kw) - 1 <= Len(T)
  /\ \A q \in 1..Len(kw) : LowerChar(T[s + q - 1]) = kw[q]
  /\ AtBoundary(T, s)
  /\ AtBoundary(T, s + Len(kw))

\* does a clause of keyword kw start at position s: kw stands there, and not
\* inside a clause of kw that started before
ClauseOf(T, s, kw) ==
  /\ KeywordAt(T, s, kw)
  /\ \A u \in 1..(s - 1) : KeywordAt(T, u, kw) => ClauseEnd(T, u) # ClauseEnd(T, s)

\* the positions where the clauses of T start
ClauseStarts(T) ==
  {s \in 1..Len(T) : \E j \in 1..Len(CONSTRAINT_KEYWORDS) : ClauseOf(T, s, CONSTRAINT_KEYWORDS[j])}

\* the clauses that start at the positions starts, in the order of the text
InTextOrder(T, starts) ==
  [q \in 1..Cardinality(starts) |->
     Clean(SubSeq(T, CHOOSE s \in starts : Cardinality({x \in starts : x < s}) = q - 1,
                  ClauseEnd(T, CHOOSE s \in starts : Cardinality({x \in starts : x < s}) = q - 1) - 1))]

\* the entries of sequence cs, as a set
Entries(cs) == {cs[j] : j \in 1..Len(cs)}

\* C17: no two constraints are equal ignoring case; of clauses equal ignoring
\* case the first is kept, in its own casing; the constraints stand in the
\* order in which their clauses first occur in the text, whatever keywords
\* introduce them.
C17_ConstraintsInTextOrder ==
  op = "_find_constraints" =>
    /\ \A i \in 1..Len(Out) : \A j \in 1..Len(Out) :
          i # j => LowerStr(Out[i]) # LowerStr(Out[j])
    /\ Out = DeDup(InTextOrder(text, ClauseStarts(text)))

\* C18: the output of parse_trip_request depends on the text alone: a call
\* made at any other date returns the same output for the same text.
C18_SameTextSameOutput ==
  op = "parse_trip_request" =>
    \A y \in Years : ParseTripRequest(text, y) = ret

\* T holds no anchor phrase of the travelers, duration, place, interest and
\* constraint extractors
NoPhraseAnchors(T) ==
  /\ ~Search(T, DestinationPat, 1, TRUE).ok
  /\ ~Search(T, DeparturePat, 1, TRUE).ok
  /\ \A j \in 1..Len(WORD_NUMS) : ~Search(T, DurationWordPat(WORD_NUMS[j].k), 0, TRUE).ok
  /\ CountWordHits(T) = {}
  /\ ~Search(T, ForPat, 1, TRUE).ok
  /\ ~Search(T, CouplePat, 1, TRUE).ok
  /\ \A j \in 1..Len(INTEREST_KEYWORDS) : ~Triggered(T, j)
  /\ ClauseStarts(T) = {}

\* T holds none of the anchor phrases: no digit (so no date range, no
\* counted duration, travelers or amount), no month name or abbreviation, no
\* budget phrase, and no anchor of the other extractors
NoAnchors(T) ==
  /\ \A j \in 1..Len(T) : ~IsDigit(T[j])
  /\ MentionedMonths(T) = {}
  /\ NoBudgetRuleMatches(T)
  /\ NoPhraseAnchors(T)

\* the output with every structured field absent or default
NothingRecognized(notes) ==
  [status |-> "success",
   spec |-> [destination |-> None, departure_city |-> None, month |-> None,
             start_date |-> None, end_date |-> None, duration_days |-> None,
             travelers |-> [adults |-> None, children |-> 0],
             budget |-> [amount |-> None, currency |-> None, tag |-> None],
             interests |-> <<>>, constraints |-> <<>>, notes |-> notes]]

\* C20: for a text with none of the anchor phrases every structured field is
\* absent or default and notes is the trimmed text; a word that only begins
\* with the letters of a month abbreviation does not set month.
C20_NothingRecognized ==
  (op = "parse_trip_request" /\ NoAnchors(text)) =>
    (Returned /\ Out = NothingRecognized(Strip(text)))

\* C19: no call writes to state shared between calls, so under every
\* interleaving of concurrent calls on texts of their own each call returns
\* the record it returns when it runs alone (in the year it read).
C19_CallsDoNotInterfere ==
  \A c \in Callers :
    calls[c].pc = Len(Locals) + 2 =>
      calls[c].ret = ParseTripRequest(calls[c].text, calls[c].year)

\* C19's case: one caller has returned while another, on another text, is
\* in the middle of its call
C19_Witness ==
  \E c \in Callers : \E d \in Callers :
    /\ calls[c].pc = Len(Locals) + 2
    /\ calls[d].pc \in 2..Len(Locals)
    /\ calls[c].text # calls[d].text

\* does word w stand at position s of T, in either case, with whitespace and
\* then an upper-case letter after it
BeforeCapital(T, s, w) ==
  /\ s + Len(w) + 1 <= Len(T)
  /\ \A q \in 1..Len(w) : LowerChar(T[s + q - 1]) = w[q]
  /\ IsSpace(T[s + Len(w)])
  /\ \E u \in (s + Len(w) + 1)..Len(T) :
        /\ T[u] \in Uppers
        /\ \A x \in (s + Len(w))..(u - 1) : IsSpace(T[x])

\* does T hold anchor word w before a phrase that begins with a capital
AnchorsCapital(T, w) == \E s \in 1..Len(T) : BeforeCapital(T, s, w)

\* C21: destination is present only when "to" (alone or in "trip to",
\* "travel to", "fly to") or "visit" stands before a phrase that begins with
\* an upper-case letter, and departure_city only when "from" does; when the
\* word after the anchor begins with a lower-case letter the field is absent.
C21_CapitalizedPlaces ==
  (op = "parse_trip_request" /\ Returned) =>
    /\ IsSome(Out.spec.destination) =>
         (AnchorsCapital(text, <<"t","o">>) \/ AnchorsCapital(text, <<"v","i","s","i","t">>))
    /\ IsSome(Out.spec.departure_city) => AnchorsCapital(text, <<"f","r","o","m">>)

\* a call of book_flight_and_hotel has ended
BookingDone == op = "book_flight_and_hotel" /\ booking.pc = "done"

\* C22: book_flight_and_hotel always returns a dictionary with a status and
\* never lets an exception reach its caller: an error record of
\* process_booking_data is returned unchanged and no browser is started;
\* otherwise a "success" record is returned, also when the browser automation
\* fails and the simulated booking is taken; and a driver that was created
\* has been quit when the function ends.
C22_AlwaysReturnsStatus ==
  BookingDone =>
    /\ Returned
    /\ Out.status \in {"success", "error"}
    /\ booking.processed_data.status = "error" =>
         Out = booking.processed_data /\ booking.driver = "none"
    /\ booking.processed_data.status # "error" => Out.status = "success"
    /\ booking.driver # "created"

=============================================================================
